---- MODULE Spec2Model ----
(***************************************************************************)
(* Podcast Studio: model routing (ModelRouter.selectModel), the retry      *)
(* policy (GeminiService.withRetry), the outbound provider calls, voice    *)
(* resolution, and the studio component (App): script editing, segment     *)
(* synchronisation, single-segment synthesis and production runs.          *)
(*                                                                         *)
(* Conventions.                                                            *)
(*  - An optional JavaScript value is a set with at most one element: {}   *)
(*    is undefined, {v} is the value v.                                    *)
(*  - A string that the code only searches (String.prototype.includes) is  *)
(*    a sequence of tokens; includes is a sub-sequence search.             *)
(*  - A dollar amount is an integer number of 0.00001 USD (0.005 USD is    *)
(*    500, 0.00001 USD is 1).                                              *)
(***************************************************************************)
EXTENDS Integers, Sequences, FiniteSets, TLC

VARIABLES
    rEarlier,     \* one of the calls made before the last one (or NoCall)
    rLast,        \* the last call: its arguments and its outcome (or NoCall)
    fn,           \* withRetry's argument fn: its outcome at each invocation
    retryPc,      \* where withRetry is: idle, awaitFn, sleeping, done
    retries,      \* withRetry's parameter retries of the current recursion level
    delay,        \* withRetry's parameter delay of the current recursion level
    invocations,  \* how many times fn has been invoked
    delays,       \* the arguments of the sleep calls, in order
    result,       \* how the outermost withRetry promise settled (or Pending)
    call,         \* the provider method a caller invokes (or NoProviderCall)
    vResolved,    \* the last voice resolution: its inputs and its voice (or {})
    state,        \* App: the committed AppState (the fields the studio reads)
    script,       \* App: the script text, as its lines
    segments,     \* App: the committed segment list
    keySegments,  \* App: the segment list the registered key handler closed over
    clock,        \* Date.now() of the last segment synchronisation
    edits,        \* how many times the script was replaced
    runs,         \* the handlePodcastProduction invocations, in request order
    tasks,        \* the synthesizeSegment invocations, in request order
    fullAudioUrl, \* App: the master audio URL (or {})
    srtUrl,       \* App: the subtitle URL (or {})
    history,      \* App: the production history, newest first
    progress,     \* App: progress.percent
    timers,       \* the pending setTimeout callbacks that reset the progress
    previews,     \* the playVoiceSample invocations, in request order
    currentSourceRef, \* currentSourceRef.current: a buffer source (or {})
    playing,      \* the buffer sources that were started and have not stopped
    audio,        \* audioControllerRef.current: its src and whether it is paused
    activePreviewId, \* App: the voice or segment shown as previewed (or {})
    playbackState, \* App: the segment shown as played, and isPlaying
    keyThinking,  \* App: the isAgentThinking the registered key handler closed over
    isAgentThinking, \* App: the committed isAgentThinking
    gens,         \* the handleScriptGeneration invocations, in request order
    orch,         \* the last ApiOrchestrator.generateScript call (or {})
    masterHistory \* localStorage 'studio-master-history': whether it parses, its entries

routerVars == <<rEarlier, rLast>>
retryVars == <<fn, retryPc, retries, delay, invocations, delays, result>>
providerVars == <<call>>
voiceVars == <<vResolved>>
playbackVars == <<previews, currentSourceRef, playing, audio, activePreviewId, playbackState>>
appVars == <<state, script, segments, keySegments, keyThinking, clock, edits, runs,
             tasks, fullAudioUrl, srtUrl, history, progress, timers>>
genVars == <<isAgentThinking, gens>>
orchVars == <<orch, masterHistory>>
vars == <<rEarlier, rLast, fn, retryPc, retries, delay, invocations, delays, result,
          call, vResolved, state, script, segments, keySegments, clock, edits,
          runs, tasks, fullAudioUrl, srtUrl, history, progress, timers,
          previews, currentSourceRef, playing, audio, activePreviewId, playbackState,
          keyThinking, isAgentThinking, gens, orch, masterHistory>>

(***************************************************************************)
(* JavaScript helpers.                                                     *)
(***************************************************************************)
\* !!v for an optional string: undefined and "" are falsy.
TruthyString(v) == v # {} /\ v # {""}

\* a truthiness test of an optional boolean: undefined and false are falsy.
TruthyBool(v) == v = {TRUE}

\* s.includes(sub)
Includes(s, sub) ==
    \E i \in 1..(Len(s) + 1) :
        /\ i + Len(sub) - 1 <= Len(s)
        /\ SubSeq(s, i, i + Len(sub) - 1) = sub

(***************************************************************************)
(* constants.ts: MODEL_REGISTRY                                            *)
(***************************************************************************)
MODEL_REGISTRY ==
    [id \in {"gemini-3-pro-preview", "gemini-3-flash-preview",
             "pollinations-script-paid", "pollinations-script-free",
             "pollinations-image-flux", "pollinations-image-free",
             "gemini-native-audio", "edge-neural-voices"} |->
        CASE id = "gemini-3-pro-preview" ->
                [id |-> id, provider |-> "gemini", name |-> "Gemini 3 Pro (Reasoning)",
                 requiresAuth |-> "user"]
          [] id = "gemini-3-flash-preview" ->
                [id |-> id, provider |-> "gemini", name |-> "Gemini 3 Flash (Fast)",
                 requiresAuth |-> "user"]
          [] id = "pollinations-script-paid" ->
                [id |-> id, provider |-> "pollinations", name |-> "Pollinations (Paid - GPT-4o)",
                 requiresAuth |-> "user"]
          [] id = "pollinations-script-free" ->
                [id |-> id, provider |-> "pollinations", name |-> "Pollinations (Free)",
                 requiresAuth |-> "none"]
          [] id = "pollinations-image-flux" ->
                [id |-> id, provider |-> "pollinations", name |-> "Flux Pro (High Quality)",
                 requiresAuth |-> "user"]
          [] id = "pollinations-image-free" ->
                [id |-> id, provider |-> "pollinations", name |-> "Pollinations Free (Turbo)",
                 requiresAuth |-> "none"]
          [] id = "gemini-native-audio" ->
                [id |-> id, provider |-> "gemini", name |-> "Gemini Native Audio (Premium)",
                 requiresAuth |-> "user"]
          [] id = "edge-neural-voices" ->
                [id |-> id, provider |-> "openai", name |-> "Microsoft Edge Neural (Free)",
                 requiresAuth |-> "none"]]

(***************************************************************************)
(* ModelRouter.selectModel                                                 *)
(***************************************************************************)
\* the inputs the model draws from
TaskTypes == {"script_generation", "image_generation", "audio_synthesis", "video_generation"}
Qualities == {"fast", "balanced", "premium"}
ReasoningFlags == {{}, {FALSE}, {TRUE}}
\* requiresReasoning is passed for script generation (orchestrator.ts) and
\* omitted by the callers of the other task types
Tasks ==
    [type : {"script_generation"}, quality : Qualities, requiresReasoning : ReasoningFlags]
    \cup [type : TaskTypes \ {"script_generation"}, quality : Qualities,
          requiresReasoning : {{}, {TRUE}}]
\* no key saved, an empty key saved, a key saved, keys of two providers saved
UserApiKeys ==
    {[pollinationsKey |-> {}, openaiKey |-> {}],
     [pollinationsKey |-> {""}, openaiKey |-> {}],
     [pollinationsKey |-> {"pk-1"}, openaiKey |-> {}],
     [pollinationsKey |-> {"pk-2"}, openaiKey |-> {"sk-1"}]}

Decision(modelId, reason, estimatedCost) ==
    [modelId |-> modelId, model |-> MODEL_REGISTRY[modelId],
     reason |-> reason, estimatedCost |-> estimatedCost]

Return(decision) == [kind |-> "return", decision |-> decision]
Throw(message) == [kind |-> "throw", message |-> message]

\* a key that is defined counts as present, also the empty string
HasPollinationsKeyDefined(userKeys) == userKeys.pollinationsKey # {}

\* const hasPollinationsKey = !!userKeys.pollinationsKey;
HasPollinationsKey(userKeys) == TruthyString(userKeys.pollinationsKey)

\* the premium test dropped from the first condition
ScriptRouteReasoningOnly(task, hasPollinationsKey) ==
    IF TruthyBool(task.requiresReasoning)
    THEN Decision("gemini-3-pro-preview",
                  "Advanced reasoning required or premium quality selected (Gemini 3 Pro)", 500)
    ELSE IF task.quality = "balanced" /\ hasPollinationsKey
    THEN Decision("pollinations-script-paid",
                  "Utilizing Pollinations GPT-4o for balanced production", 200)
    ELSE Decision("pollinations-script-free",
                  "Standard fast script generation (Free tier)", 0)

\* SCRIPT GENERATION ROUTING
ScriptRoute(task, hasPollinationsKey) ==
    IF task.quality = "premium" \/ TruthyBool(task.requiresReasoning)
    THEN Decision("gemini-3-pro-preview",
                  "Advanced reasoning required or premium quality selected (Gemini 3 Pro)", 500)
    ELSE IF task.quality = "balanced" /\ hasPollinationsKey
    THEN Decision("pollinations-script-paid",
                  "Utilizing Pollinations GPT-4o for balanced production", 200)
    ELSE Decision("pollinations-script-free",
                  "Standard fast script generation (Free tier)", 0)

\* || in place of &&
ImageRouteEither(task, hasPollinationsKey) ==
    IF task.quality = "premium" \/ hasPollinationsKey
    THEN Decision("pollinations-image-flux", "High-fidelity visuals via Flux Pro", 3000)
    ELSE Decision("pollinations-image-free", "Free image generation using Turbo model", 0)

\* IMAGE GENERATION ROUTING
ImageRoute(task, hasPollinationsKey) ==
    IF task.quality = "premium" /\ hasPollinationsKey
    THEN Decision("pollinations-image-flux", "High-fidelity visuals via Flux Pro", 3000)
    ELSE Decision("pollinations-image-free", "Free image generation using Turbo model", 0)

\* the premium engine gated on a credential, as the image route is
AudioRouteKeyed(task, hasPollinationsKey) ==
    IF task.quality = "premium" /\ hasPollinationsKey
    THEN Decision("gemini-native-audio",
                  "Premium multi-speaker synthesis (Gemini 2.5 Native)", 1)
    ELSE Decision("edge-neural-voices",
                  "Efficient Edge neural voices for standard production", 0)

\* AUDIO SYNTHESIS ROUTING
AudioRoute(task, hasPollinationsKey) ==
    IF task.quality = "premium"
    THEN Decision("gemini-native-audio",
                  "Premium multi-speaker synthesis (Gemini 2.5 Native)", 1)
    ELSE Decision("edge-neural-voices",
                  "Efficient Edge neural voices for standard production", 0)

\* the decision of the previous call of the same task type is reused
SelectModelCached(task, userKeys) ==
    IF rLast # {} /\ (\E c \in rLast : c.task.type = task.type)
    THEN (CHOOSE c \in rLast : TRUE).outcome
    ELSE IF task.type = "script_generation"
    THEN Return(ScriptRoute(task, HasPollinationsKey(userKeys)))
    ELSE IF task.type = "image_generation"
    THEN Return(ImageRoute(task, HasPollinationsKey(userKeys)))
    ELSE IF task.type = "audio_synthesis"
    THEN Return(AudioRoute(task, HasPollinationsKey(userKeys)))
    ELSE Throw(<<"Unsupported task: ", task.type>>)

\* the last branch taken as the default instead of being tested
SelectModelNoThrow(task, userKeys) ==
    IF task.type = "script_generation"
    THEN Return(ScriptRoute(task, HasPollinationsKey(userKeys)))
    ELSE IF task.type = "image_generation"
    THEN Return(ImageRoute(task, HasPollinationsKey(userKeys)))
    ELSE Return(AudioRoute(task, HasPollinationsKey(userKeys)))

\* static selectModel(task, userKeys): RoutingDecision
SelectModel(task, userKeys) ==
    IF task.type = "script_generation"
    THEN Return(ScriptRoute(task, HasPollinationsKey(userKeys)))
    ELSE IF task.type = "image_generation"
    THEN Return(ImageRoute(task, HasPollinationsKey(userKeys)))
    ELSE IF task.type = "audio_synthesis"
    THEN Return(AudioRoute(task, HasPollinationsKey(userKeys)))
    ELSE Throw(<<"Unsupported task: ", task.type>>)

\* no call yet: the optional call record is empty
NoCall == {}

Call(task, userKeys) == [task |-> task, userKeys |-> userKeys, outcome |-> SelectModel(task, userKeys)]

\* a caller evaluates ModelRouter.selectModel(task, userKeys)
SelectModelCall ==
    /\ \E task \in Tasks, userKeys \in UserApiKeys :
          rLast' = {Call(task, userKeys)}
    /\ rEarlier' \in {rEarlier, rLast}
    /\ UNCHANGED <<retryVars, providerVars, voiceVars, appVars, playbackVars, genVars, orchVars>>

(***************************************************************************)
(* GeminiService.withRetry                                                 *)
(***************************************************************************)
DefaultRetries == 3
DefaultDelay == 2000

\* An error value thrown by fn: kind "Error" is an Error instance (its message
\* is an own non-enumerable property), kind "object" a plain object (its
\* message is enumerable); props are the tokens of its other own enumerable
\* properties (an ApiError's status).
ErrNetwork == [kind |-> "Error", message |-> {<<"Failed", "to", "fetch">>}, props |-> <<>>]
ErrNoPayload == [kind |-> "Error", message |-> {<<"Synthesis", "produced", "no", "audio", "payload.">>}, props |-> <<>>]
Err429Message == [kind |-> "Error", message |-> {<<"got", "status", "429">>}, props |-> <<>>]
ErrApiStatus429 == [kind |-> "Error", message |-> {<<"quota", "exceeded">>}, props |-> <<"status", "429">>]
ErrExhaustedMessage == [kind |-> "Error", message |-> {<<"RESOURCE_EXHAUSTED", "quota">>}, props |-> <<>>]
ErrExhaustedStatus == [kind |-> "Error", message |-> {<<"quota", "exceeded">>}, props |-> <<"status", "RESOURCE_EXHAUSTED">>]
ErrObjectExhausted == [kind |-> "object", message |-> {<<"RESOURCE_EXHAUSTED">>}, props |-> <<>>]
ErrObjectCode == [kind |-> "object", message |-> {}, props |-> <<"code", "503">>]

Errors == {ErrNetwork, ErrNoPayload, Err429Message, ErrApiStatus429, ErrExhaustedMessage,
           ErrExhaustedStatus, ErrObjectExhausted, ErrObjectCode}
Values == {"v1", "v2"}

\* a settled promise: resolved with a value or rejected with an error
Resolve(value) == [kind |-> "resolve", value |-> {value}, error |-> {}]
Reject(error) == [kind |-> "reject", value |-> {}, error |-> {error}]
Pending == [kind |-> "pending", value |-> {}, error |-> {}]
FnOutcomes == {Resolve(v) : v \in Values} \cup {Reject(e) : e \in Errors}

\* the outcome of the i-th invocation of fn; past the drawn outcomes fn
\* keeps behaving as it did last
FnOutcome(i) == IF i \in DOMAIN fn THEN fn[i] ELSE fn[Len(fn)]

\* JSON.stringify(error): own enumerable properties only
JSONstringify(error) ==
    <<"{">>
    \o (IF error.kind = "object" /\ error.message # {}
        THEN <<"message">> \o (CHOOSE m \in error.message : TRUE)
        ELSE <<>>)
    \o error.props
    \o <<"}">>

\* every error is taken for a rate-limit error
IsRateLimitAlways(error) == TRUE

\* an error whose message speaks of the payload is taken for a rate-limit error too
IsRateLimitOrNoPayload(error) ==
    \/ \E m \in error.message : Includes(m, <<"429">>) \/ Includes(m, <<"payload.">>)
    \/ Includes(JSONstringify(error), <<"429">>)
    \/ Includes(JSONstringify(error), <<"RESOURCE_EXHAUSTED">>)

\* const isRateLimit = error?.message?.includes('429') || errorStr.includes('429')
\*                     || errorStr.includes('RESOURCE_EXHAUSTED');
IsRateLimit(error) ==
    \/ \E m \in error.message : Includes(m, <<"429">>)
    \/ Includes(JSONstringify(error), <<"429">>)
    \/ Includes(JSONstringify(error), <<"RESOURCE_EXHAUSTED">>)

\* >= in place of >
ShouldRetryOffByOne(error, r) == IsRateLimit(error) /\ r >= 0

\* if (isRateLimit && retries > 0)
ShouldRetry(error, r) == IsRateLimit(error) /\ r > 0

\* withRetry(fn) is called with the default retries and delay; fn is invoked
WithRetryCall ==
    /\ retryPc = "idle"
    /\ retryPc' = "awaitFn"
    /\ invocations' = invocations + 1
    /\ UNCHANGED <<fn, retries, delay, delays, result>>
    /\ UNCHANGED <<routerVars, providerVars, voiceVars, appVars, playbackVars, genVars, orchVars>>

\* return await fn(): fn's promise resolves
FnResolves ==
    /\ retryPc = "awaitFn"
    /\ FnOutcome(invocations).kind = "resolve"
    /\ result' = FnOutcome(invocations)
    /\ retryPc' = "done"
    /\ UNCHANGED <<fn, retries, delay, invocations, delays>>
    /\ UNCHANGED <<routerVars, providerVars, voiceVars, appVars, playbackVars, genVars, orchVars>>

\* catch (error): a rate-limit error with retries left; sleep(delay) starts
FnRejectsRetry ==
    /\ retryPc = "awaitFn"
    /\ FnOutcome(invocations).kind = "reject"
    /\ \E error \in FnOutcome(invocations).error : ShouldRetry(error, retries)
    /\ delays' = Append(delays, delay)
    /\ retryPc' = "sleeping"
    /\ UNCHANGED <<fn, retries, delay, invocations, result>>
    /\ UNCHANGED <<routerVars, providerVars, voiceVars, appVars, playbackVars, genVars, orchVars>>

\* catch (error): throw error
FnRejectsThrow ==
    /\ retryPc = "awaitFn"
    /\ FnOutcome(invocations).kind = "reject"
    /\ \E error \in FnOutcome(invocations).error :
          /\ ~ShouldRetry(error, retries)
          /\ result' = Reject(error)
    /\ retryPc' = "done"
    /\ UNCHANGED <<fn, retries, delay, invocations, delays>>
    /\ UNCHANGED <<routerVars, providerVars, voiceVars, appVars, playbackVars, genVars, orchVars>>

\* sleep(delay) is over: return this.withRetry(fn, retries - 1, delay * 2)
SleepElapses ==
    /\ retryPc = "sleeping"
    /\ retries' = retries - 1
    /\ delay' = delay * 2
    /\ invocations' = invocations + 1
    /\ retryPc' = "awaitFn"
    /\ UNCHANGED <<fn, delays, result>>
    /\ UNCHANGED <<routerVars, providerVars, voiceVars, appVars, playbackVars, genVars, orchVars>>

(***************************************************************************)
(* The outbound provider calls: GeminiService.generateScriptFromTopic,     *)
(* GeminiService.generateSpeech, PollinationsService.generateScript        *)
(***************************************************************************)
NoProviderCall == "(none)"

\* both GeminiService methods are return this.withRetry(async () => ...)
GeminiCalls == {"gemini.generateScriptFromTopic", "gemini.generateSpeech"}

ProviderCalls == GeminiCalls \cup {"pollinations.generateScript"}

\* what fetch resolves with: a Response (ok, status, and the body text)
Response(ok, status, text) == [ok |-> ok, status |-> status, text |-> text]

Responses ==
    { Response(TRUE, 200, "Host: Welcome."),
      Response(TRUE, 200, ""),
      Response(FALSE, 429, "Too Many Requests"),
      Response(FALSE, 500, "Internal Server Error") }

\* the ways the one fetch of PollinationsService.generateScript settles
FetchOutcomes == { Resolve(r) : r \in Responses } \cup { Reject(ErrNetwork) }

\* new Error(`Pollinations API failed: ${response.status} ${errorText}`)
PollinationsError(response) ==
    [kind |-> "Error",
     message |-> {<<"Pollinations", "API", "failed:", ToString(response.status), response.text>>},
     props |-> <<>>]

\* pollinations.generateScript(...) is called: const response = await fetch(url, { headers })
PollinationsGenerateScriptCall ==
    /\ call = "pollinations.generateScript"
    /\ retryPc = "idle"
    /\ retryPc' = "awaitFetch"
    /\ invocations' = invocations + 1
    /\ UNCHANGED <<fn, retries, delay, delays, result>>
    /\ UNCHANGED <<routerVars, providerVars, voiceVars, appVars, playbackVars, genVars, orchVars>>

\* fetch resolves: if (!response.ok) throw new Error(...); return await response.text()
PollinationsFetchResolves ==
    /\ call = "pollinations.generateScript"
    /\ retryPc = "awaitFetch"
    /\ FnOutcome(invocations).kind = "resolve"
    /\ \E response \in FnOutcome(invocations).value :
          result' = IF ~response.ok
                    THEN Reject(PollinationsError(response))
                    ELSE Resolve(response.text)
    /\ retryPc' = "done"
    /\ UNCHANGED <<fn, retries, delay, invocations, delays>>
    /\ UNCHANGED <<routerVars, providerVars, voiceVars, appVars, playbackVars, genVars, orchVars>>

\* fetch rejects: the rejection leaves generateScript as it is
PollinationsFetchRejects ==
    /\ call = "pollinations.generateScript"
    /\ retryPc = "awaitFetch"
    /\ FnOutcome(invocations).kind = "reject"
    /\ result' = FnOutcome(invocations)
    /\ retryPc' = "done"
    /\ UNCHANGED <<fn, retries, delay, invocations, delays>>
    /\ UNCHANGED <<routerVars, providerVars, voiceVars, appVars, playbackVars, genVars, orchVars>>

\* what ai.models.generateContent resolves with: text is response.text, data
\* is response.candidates?.[0]?.content?.parts?.[0]?.inlineData?.data; {} is
\* undefined
ContentResponse(text, data) == [text |-> text, data |-> data]

ContentResponses ==
    { ContentResponse({"Host: Welcome."}, {}),
      ContentResponse({""}, {}),
      ContentResponse({}, {}),
      ContentResponse({}, {"UklGRg"}),
      ContentResponse({}, {""}) }

\* the ways one generateContent request settles
ContentOutcomes ==
    { Resolve(r) : r \in ContentResponses } \cup { Reject(e) : e \in Errors \ {ErrNoPayload} }

Disclaimer == "Host: I encountered an issue generating the script context."

\* return response.text || "Host: I encountered an issue ..."
ScriptText(response) ==
    IF response.text = {} \/ response.text = {""}
    THEN Resolve(Disclaimer)
    ELSE Resolve(CHOOSE text \in response.text : TRUE)

\* if (!data) throw new Error("Synthesis produced no audio payload."); return data
ExtractAudio(response) ==
    IF response.data = {} \/ response.data = {""}
    THEN Reject(ErrNoPayload)
    ELSE Resolve(CHOOSE data \in response.data : TRUE)

\* the async function a GeminiService method hands to withRetry, applied to
\* the way its generateContent request settles
GeminiFn(method, outcome) ==
    IF outcome.kind = "reject" THEN outcome
    ELSE LET response == CHOOSE r \in outcome.value : TRUE
         IN IF method = "gemini.generateSpeech" THEN ExtractAudio(response)
            ELSE ScriptText(response)

(***************************************************************************)
(* ApiOrchestrator.generateScript (orchestrator.ts 15-79).  Of the topic   *)
(* the orchestrator reads the length only; the stored usage history is a   *)
(* sequence of entries, or Unparsable when the item is not JSON.           *)
(***************************************************************************)
Topics == {"AI news", "A long history of space exploration, from Sputnik to Artemis"}

\* topic.length
TopicLength(topic) == IF topic = "AI news" THEN 7 ELSE 60 + 3

ScriptTexts == {"Host: Welcome.", ""}

\* scriptText.length
TextLength(scriptText) == IF scriptText = "" THEN 0 ELSE 14

\* { type: "script_generation", quality: state.quality, requiresReasoning: topic.length > 60 }
ScriptTask(topic, quality) ==
    [type |-> "script_generation", quality |-> quality,
     requiresReasoning |-> {TopicLength(topic) > 60}]

\* every Pollinations decision is given the paid alias
ModelAliasOpenai(decision) == "openai"

\* const modelAlias = decision.modelId === "pollinations-script-paid" ? "openai" : "mistral"
ModelAlias(decision) ==
    IF decision.modelId = "pollinations-script-paid" THEN "openai" ELSE "mistral"

\* the provider method generateScript awaits, and its arguments
ProviderCallOf(decision, quality, apiKeys) ==
    IF decision.model.provider = "gemini"
    THEN [service |-> "gemini.generateScriptFromTopic", model |-> {decision.modelId},
          useDeepThink |-> {quality = "premium"}, alias |-> {}, apiKey |-> {}]
    ELSE [service |-> "pollinations.generateScript", model |-> {}, useDeepThink |-> {},
          alias |-> {ModelAlias(decision)}, apiKey |-> apiKeys.pollinationsKey]

\* `${e.message}` of what was caught
MessageOf(e) == IF e.message = {} THEN <<"undefined">> ELSE CHOOSE m \in e.message : TRUE

\* new Error(`Orchestration failed via ${decision.model.name}: ${e.message}`)
OrchestrationError(decision, e) ==
    [kind |-> "Error",
     message |-> {<<"Orchestration", "failed", "via", decision.model.name>> \o MessageOf(e)},
     props |-> <<>>]

\* Math.ceil((topic.length + scriptText.length) / 4)
TokensUsed(topic, scriptText) == (TopicLength(topic) + TextLength(scriptText) + 3) \div 4

\* the OrchestrationResult generateScript returns
OrchestrationResult(decision, topic, scriptText) ==
    [script |-> scriptText, modelUsed |-> decision.model.name,
     costEstimate |-> decision.estimatedCost,
     tokensUsed |-> TokensUsed(topic, scriptText)]

MasterHistoryLimit == 200

\* the stored item: the array JSON.parse returns, or an item it rejects
Stored(entries) == [parses |-> TRUE, entries |-> entries]
Unparsable == [parses |-> FALSE, entries |-> <<>>]

MetadataEntry(decision, tokens) ==
    [model |-> decision.modelId, modelName |-> decision.model.name,
     provider |-> decision.model.provider, cost |-> decision.estimatedCost,
     tokensUsed |-> tokens]

\* what localStorage holds when generateScript is called: nothing, one entry,
\* as many entries as are kept, or an item that JSON.parse rejects
StoredHistories ==
    LET old == MetadataEntry(ScriptRoute(ScriptTask("AI news", "fast"), FALSE), 6)
    IN {Stored(<<>>), Stored(<<old>>), Stored([i \in 1..MasterHistoryLimit |-> old]),
        Unparsable}

\* recordProductionMetadata(decision, tokens): history.push(...), slice(-200);
\* an exception of JSON.parse is caught and nothing is stored
RecordProductionMetadata(stored, decision, tokens) ==
    IF ~stored.parses THEN stored
    ELSE LET pushed == Append(stored.entries, MetadataEntry(decision, tokens))
         IN IF Len(pushed) <= MasterHistoryLimit THEN Stored(pushed)
            ELSE Stored(SubSeq(pushed, Len(pushed) - MasterHistoryLimit + 1, Len(pushed)))

\* ApiOrchestrator.generateScript(topic, state) up to its await
GenerateScriptCall ==
    /\ orch = {}
    /\ \E topic \in Topics, quality \in Qualities, apiKeys \in UserApiKeys :
          LET decision == SelectModel(ScriptTask(topic, quality), apiKeys).decision
          IN orch' = {[pc |-> "awaitProvider", topic |-> topic, quality |-> quality,
                       apiKeys |-> apiKeys, decision |-> decision,
                       providerCall |-> ProviderCallOf(decision, quality, apiKeys),
                       result |-> Pending]}
    /\ UNCHANGED masterHistory
    /\ UNCHANGED <<routerVars, retryVars, providerVars, voiceVars, appVars, playbackVars,
                   genVars>>

\* the provider call resolves: orchestrator.ts 50-59
ProviderScriptResolves ==
    /\ \E c \in orch, scriptText \in ScriptTexts :
          /\ c.pc = "awaitProvider"
          /\ masterHistory' = RecordProductionMetadata(masterHistory, c.decision,
                                                       TokensUsed(c.topic, scriptText))
          /\ orch' = {[c EXCEPT !.pc = "done",
                                !.result = Resolve(OrchestrationResult(c.decision, c.topic,
                                                                       scriptText))]}
    /\ UNCHANGED <<routerVars, retryVars, providerVars, voiceVars, appVars, playbackVars,
                   genVars>>

\* the provider call rejects: the catch block, orchestrator.ts 46-48
ProviderScriptRejects ==
    /\ \E c \in orch, e \in Errors :
          /\ c.pc = "awaitProvider"
          /\ orch' = {[c EXCEPT !.pc = "done",
                                !.result = Reject(OrchestrationError(c.decision, e))]}
    /\ UNCHANGED masterHistory
    /\ UNCHANGED <<routerVars, retryVars, providerVars, voiceVars, appVars, playbackVars,
                   genVars>>

(***************************************************************************)
(* constants.ts: VOICES, and the voice resolution of App.synthesizeSegment *)
(* and App.handlePodcastProduction.  A speaker label and a voice name are  *)
(* searched case-insensitively, so here they are sequences of characters.  *)
(***************************************************************************)
Voice(id, name, voiceName, engine) ==
    [id |-> id, name |-> name, voiceName |-> voiceName, engine |-> engine]

VOICES ==
    << Voice("pro-1", <<"A", "l", "e", "x">>, "Kore", "GEMINI"),
       Voice("pro-2", <<"J", "o", "r", "d", "a", "n">>, "Puck", "GEMINI"),
       Voice("pro-3", <<"S", "a", "m">>, "Charon", "GEMINI"),
       Voice("free-1", <<"A", "n", "d", "r", "e", "w">>, "en-US-AndrewNeural", "BROWSER"),
       Voice("free-2", <<"E", "m", "m", "a">>, "en-US-EmmaNeural", "BROWSER"),
       Voice("free-3", <<"S", "o", "n", "i", "a">>, "en-GB-SoniaNeural", "BROWSER") >>

\* the characters of the speaker labels of the model
Chars(label) ==
    CASE label = "Host" -> <<"H", "o", "s", "t">>
      [] label = "Guest" -> <<"G", "u", "e", "s", "t">>
      [] label = "System" -> <<"S", "y", "s", "t", "e", "m">>
      [] label = "Narrator" -> <<"N", "a", "r", "r", "a", "t", "o", "r">>
      [] label = "sam" -> <<"s", "a", "m">>
      [] label = "EMMA" -> <<"E", "M", "M", "A">>
      [] label = "An" -> <<"A", "n">>
      [] label = "" -> <<>>

SpeakerLabels == {"Host", "Guest", "System", "Narrator", "sam", "EMMA", "An", ""}

\* String.prototype.toLowerCase, on the upper-case letters the model uses
LowerChar(c) ==
    CASE c = "A" -> "a" [] c = "E" -> "e" [] c = "G" -> "g" [] c = "H" -> "h"
      [] c = "J" -> "j" [] c = "M" -> "m" [] c = "N" -> "n" [] c = "S" -> "s"
      [] OTHER -> c

ToLowerCase(s) == [i \in DOMAIN s |-> LowerChar(s[i])]

\* Array.prototype.find: the first element with the property (or undefined)
Find(array, P(_)) ==
    LET hits == {i \in DOMAIN array : P(array[i])}
    IN IF hits = {} THEN {}
       ELSE {array[CHOOSE i \in hits : \A j \in hits : i <= j]}

\* state.speakerVoiceMap[seg.speaker]
MappedVoiceId(speakerVoiceMap, speaker) ==
    IF speaker \in DOMAIN speakerVoiceMap THEN {speakerVoiceMap[speaker]} ELSE {}

EngineOf(isGeminiEngine) == IF isGeminiEngine THEN "GEMINI" ELSE "BROWSER"

\* the fallback is the first voice of the registry, whatever its engine
ResolveVoiceAnyEngine(speaker, speakerVoiceMap, isGeminiEngine) ==
    LET mappedVoiceId == MappedVoiceId(speakerVoiceMap, speaker)
        Mapped(v) == v.id \in mappedVoiceId
        voice == Find(VOICES, Mapped)
    IN IF voice # {} THEN voice ELSE {VOICES[1]}

\* the name is searched before the map is consulted
ResolveVoiceNameFirst(speaker, speakerVoiceMap, isGeminiEngine) ==
    LET OfEngine(v) == v.engine = EngineOf(isGeminiEngine)
        currentEngineVoices == SelectSeq(VOICES, OfEngine)
        mappedVoiceId == MappedVoiceId(speakerVoiceMap, speaker)
        Mapped(v) == v.id \in mappedVoiceId /\ v.engine = EngineOf(isGeminiEngine)
        voice == Find(VOICES, Mapped)
        NamedLike(v) == Includes(ToLowerCase(v.name), ToLowerCase(Chars(speaker)))
        named == Find(currentEngineVoices, NamedLike)
    IN IF named # {} THEN named
       ELSE IF voice # {} THEN voice
       ELSE IF Len(currentEngineVoices) > 0 THEN {currentEngineVoices[1]}
       ELSE {}

\* the voice of a segment (part_003 212-218 and 339-344); {} is undefined
ResolveVoice(speaker, speakerVoiceMap, isGeminiEngine) ==
    LET OfEngine(v) == v.engine = EngineOf(isGeminiEngine)
        currentEngineVoices == SelectSeq(VOICES, OfEngine)
        mappedVoiceId == MappedVoiceId(speakerVoiceMap, speaker)
        Mapped(v) == v.id \in mappedVoiceId /\ v.engine = EngineOf(isGeminiEngine)
        voice == Find(VOICES, Mapped)
        NamedLike(v) == Includes(ToLowerCase(v.name), ToLowerCase(Chars(speaker)))
        named == Find(currentEngineVoices, NamedLike)
    IN IF voice # {} THEN voice
       ELSE IF named # {} THEN named
       ELSE IF Len(currentEngineVoices) > 0 THEN {currentEngineVoices[1]}
       ELSE {}

\* the speaker-to-voice maps: the initial one, and maps with ids of either
\* engine or of no voice
VoiceIds == {"pro-1", "pro-3", "free-1", "free-2", "no-such-voice"}

InitialSpeakerVoiceMap == [speaker \in {"Host", "Guest"} |->
                              IF speaker = "Host" THEN "pro-1" ELSE "pro-2"]

SpeakerVoiceMaps ==
    {InitialSpeakerVoiceMap}
    \cup UNION {[D -> VoiceIds] : D \in SUBSET {"Host", "sam"}}

\* const ttsDecision = ModelRouter.selectModel({ type: "audio_synthesis", quality }, apiKeys)
TtsDecision(quality, apiKeys) ==
    SelectModel([type |-> "audio_synthesis", quality |-> quality, requiresReasoning |-> {}],
                apiKeys).decision

IsGeminiEngine(ttsDecision) == ttsDecision.model.provider = "gemini"

\* the voice of a segment is resolved under a routing decision
ResolveVoiceCall ==
    /\ vResolved = {}
    /\ \E speaker \in SpeakerLabels, speakerVoiceMap \in SpeakerVoiceMaps,
          quality \in Qualities, apiKeys \in UserApiKeys :
          LET ttsDecision == TtsDecision(quality, apiKeys)
          IN vResolved' = {[speaker |-> speaker,
                            speakerVoiceMap |-> speakerVoiceMap,
                            ttsDecision |-> ttsDecision,
                            voice |-> ResolveVoice(speaker, speakerVoiceMap,
                                                   IsGeminiEngine(ttsDecision))]}
    /\ UNCHANGED <<routerVars, retryVars, providerVars, appVars, playbackVars, genVars, orchVars>>

(***************************************************************************)
(* App (part_003): the script and its segment list                         *)
(*                                                                         *)
(* A script is the sequence of its lines.  A line is what the segment      *)
(* synchronisation reads of it: label is the trimmed text before its first *)
(* colon ({} when the pattern of line 145 does not match), body the rest,  *)
(* trimmed (the whole trimmed line when there is no match), length its     *)
(* number of characters.                                                   *)
(*                                                                         *)
(* A segment is an object: obj names the object, so that two list entries  *)
(* with the same obj are one object, and an assignment to a field of the   *)
(* object shows in every list that holds it.  { ...s, status } makes a new *)
(* object.                                                                 *)
(***************************************************************************)
MaxLines == 2
MaxEdits == 1

Line(label, body, length) == [label |-> label, body |-> body, length |-> length]

LineHost == Line({"Host"}, "Welcome.", 14)
LineGuest == Line({"Guest"}, "Thanks.", 14)

\* "Host:" has a label and nothing after its colon; a line of two blanks
LineLabelOnly == Line({"Host"}, "", 5)
LineBlank == Line({}, "", 2)

Lines == {LineHost, LineGuest, LineLabelOnly, LineBlank}

Scripts == UNION { [1..n -> Lines] : n \in 0..MaxLines }

RECURSIVE SumOf(_, _)
\* the sum of f[i] over the first n indices of the sequence f
SumOf(f, n) == IF n = 0 THEN 0 ELSE SumOf(f, n - 1) + f[n]

\* script.length: the lines and the newlines between them
ScriptLength(s) ==
    IF Len(s) = 0 THEN 0
    ELSE SumOf([i \in DOMAIN s |-> s[i].length], Len(s)) + (Len(s) - 1)

\* l.trim().length > 0
NonBlank(l) == l.label # {} \/ l.body # ""

\* const speaker = match ? match[1].trim() : 'Narrator'
SpeakerOf(l) == IF l.label # {} THEN CHOOSE x \in l.label : TRUE ELSE "Narrator"

\* const text = match ? match[2].trim() : l.trim()
TextOf(l) == l.body

Segment(obj, id, speaker, text) ==
    [obj |-> obj, id |-> id, speaker |-> speaker, text |-> text, status |-> "pending",
     audioUrl |-> {}, duration |-> {}, startTime |-> {}]

\* the segment synchronisation (part_003 143-156): lines.map((l, i) => existing || {...})
Sync(lines, segs, now, edit) ==
    [i \in DOMAIN lines |->
        LET speaker == SpeakerOf(lines[i])
            text == TextOf(lines[i])
            Same(sg) == sg.text = text /\ sg.speaker = speaker
            existing == Find(segs, Same)
        IN IF existing # {}
           THEN CHOOSE sg \in existing : TRUE
           ELSE Segment(<<"sync", edit, i - 1>>, <<"seg", i - 1, now>>, speaker, text)]

\* the segments of a script: its non-blank lines, synchronised
Segmentation(s, segs, now, edit) == Sync(SelectSeq(s, NonBlank), segs, now, edit)

\* the AppState a new installation starts with (part_003 22-35)
InitialState(tier, quality) ==
    [tier |-> tier, quality |-> quality, exportFormat |-> "MP3",
     apiKeys |-> [pollinationsKey |-> {}, openaiKey |-> {}],
     isGenerating |-> FALSE,
     introText |-> "Welcome to Podcast Studio AI.",
     outroText |-> "Stay curious, and thanks for listening!",
     speakerVoiceMap |-> InitialSpeakerVoiceMap]

\* fields of the object obj are assigned in place: seen in every list holding it
Assign(list, obj, startTime, duration) ==
    [k \in DOMAIN list |->
        IF list[k].obj = obj
        THEN [list[k] EXCEPT !.startTime = {startTime}, !.duration = {duration}]
        ELSE list[k]]

\* setScript(newScript), the render it causes, and the effects of that render:
\* the key handler is registered again (it closes over the segment list of
\* this render), then the segments are synchronised unless a run is flagged
SetScript ==
    /\ edits < MaxEdits
    /\ \E newScript \in Scripts \ {script}, now \in {clock, clock + 1} :
          /\ script' = newScript
          /\ clock' = now
          /\ segments' = IF state.isGenerating THEN segments
                         ELSE Segmentation(newScript, segments, now, edits + 1)
    /\ keySegments' = segments
    /\ keyThinking' = isAgentThinking
    /\ edits' = edits + 1
    /\ UNCHANGED <<state, runs, tasks, fullAudioUrl, srtUrl, history, progress, timers>>
    /\ UNCHANGED <<routerVars, retryVars, providerVars, voiceVars, playbackVars, genVars, orchVars>>

(***************************************************************************)
(* App: the settings (part_003 256-265, 687, 713, 834).  Every one is a    *)
(* functional update of the state; the render it causes registers the key  *)
(* handler again.                                                          *)
(***************************************************************************)
\* the export formats selected, the voices selected for the speaker "Host"
\* and the key that is saved
SelectedFormats == {"MP3", "WAV"}
OfferedVoices == {"pro-1", "free-1"}
SavedKeys == {"pk-1"}

\* setState(p => ({ ...p, exportFormat: e.target.value }))
SetExportFormat ==
    /\ \E fmt \in SelectedFormats \ {state.exportFormat} :
          state' = [state EXCEPT !.exportFormat = fmt]
    /\ keySegments' = segments
    /\ keyThinking' = isAgentThinking
    /\ UNCHANGED <<script, segments, clock, edits, runs, tasks, fullAudioUrl, srtUrl,
                   history, progress, timers>>
    /\ UNCHANGED <<routerVars, retryVars, providerVars, voiceVars, playbackVars, genVars, orchVars>>

\* setState(p => ({ ...p, tier: UserTier.ENTERPRISE }))
UpgradeTier ==
    /\ state.tier # "ENTERPRISE"
    /\ state' = [state EXCEPT !.tier = "ENTERPRISE"]
    /\ keySegments' = segments
    /\ keyThinking' = isAgentThinking
    /\ UNCHANGED <<script, segments, clock, edits, runs, tasks, fullAudioUrl, srtUrl,
                   history, progress, timers>>
    /\ UNCHANGED <<routerVars, retryVars, providerVars, voiceVars, playbackVars, genVars, orchVars>>

\* setState(p => ({ ...p, speakerVoiceMap: { ...p.speakerVoiceMap, [name]: e.target.value } }))
SetSpeakerVoice ==
    /\ \E voiceId \in OfferedVoices \ {state.speakerVoiceMap["Host"]} :
          state' = [state EXCEPT !.speakerVoiceMap["Host"] = voiceId]
    /\ keySegments' = segments
    /\ keyThinking' = isAgentThinking
    /\ UNCHANGED <<script, segments, clock, edits, runs, tasks, fullAudioUrl, srtUrl,
                   history, progress, timers>>
    /\ UNCHANGED <<routerVars, retryVars, providerVars, voiceVars, playbackVars, genVars, orchVars>>

\* handleApiKeySave("pollinationsKey", key)
HandleApiKeySave ==
    /\ \E key \in SavedKeys :
          /\ state.apiKeys.pollinationsKey # {key}
          /\ state' = [state EXCEPT !.apiKeys.pollinationsKey = {key}]
    /\ keySegments' = segments
    /\ keyThinking' = isAgentThinking
    /\ UNCHANGED <<script, segments, clock, edits, runs, tasks, fullAudioUrl, srtUrl,
                   history, progress, timers>>
    /\ UNCHANGED <<routerVars, retryVars, providerVars, voiceVars, playbackVars, genVars, orchVars>>

(***************************************************************************)
(* App.handleScriptGeneration (part_003 275-302), with a topic entered.    *)
(* The button calls the function of the last render; Ctrl/Cmd+G calls the  *)
(* function of the render in which the key handler was registered, and the *)
(* handler is registered again when the topic, the script or the state     *)
(* changes (part_003 97-104), not when isAgentThinking changes.            *)
(***************************************************************************)
MaxGens == 2

\* result.script of the orchestrator
GeneratedScripts == {<<LineHost>>, <<LineHost, LineGuest>>}

\* part_003 277-282: the invocation passes line 276 and awaits the orchestrator
StartGeneration ==
    /\ Len(gens) < MaxGens
    /\ gens' = Append(gens, [pc |-> "generateScript"])
    /\ isAgentThinking' = TRUE
    /\ progress' = 10
    /\ UNCHANGED <<state, script, segments, keySegments, keyThinking, clock, edits, runs,
                   tasks, fullAudioUrl, srtUrl, history, timers>>
    /\ UNCHANGED <<routerVars, retryVars, providerVars, voiceVars, playbackVars, orchVars>>

\* the draft button (enabled by part_003 502)
RequestGenerationButton ==
    /\ ~isAgentThinking
    /\ StartGeneration

\* Ctrl/Cmd+G (part_003 99)
RequestGenerationKey ==
    /\ ~keyThinking
    /\ StartGeneration

\* ApiOrchestrator.generateScript has resolved: part_003 283-289 up to the
\* await of the delay, and the effects of the render when the script differs
GenerationResolves(g) ==
    /\ g \in DOMAIN gens
    /\ gens[g].pc = "generateScript"
    /\ gens' = [gens EXCEPT ![g].pc = "delay"]
    /\ progress' = 60
    /\ \E newScript \in GeneratedScripts :
          /\ script' = newScript
          /\ IF newScript = script
             THEN UNCHANGED <<segments, keySegments, keyThinking, clock, edits>>
             ELSE /\ clock' = clock + 1
                  /\ edits' = edits + 1
                  /\ segments' = IF state.isGenerating THEN segments
                                 ELSE Segmentation(newScript, segments, clock + 1, edits + 1)
                  /\ keySegments' = segments
                  /\ keyThinking' = isAgentThinking
    /\ UNCHANGED <<state, runs, tasks, fullAudioUrl, srtUrl, history, timers, isAgentThinking>>
    /\ UNCHANGED <<routerVars, retryVars, providerVars, voiceVars, playbackVars, orchVars>>

\* the delay of 800 ms is over: part_003 290-298 and the finally block
GenerationDelayElapses(g) ==
    /\ g \in DOMAIN gens
    /\ gens[g].pc = "delay"
    /\ gens' = [gens EXCEPT ![g].pc = "done"]
    /\ progress' = 100
    /\ timers' = timers + 1
    /\ isAgentThinking' = FALSE
    /\ UNCHANGED <<state, script, segments, keySegments, keyThinking, clock, edits, runs,
                   tasks, fullAudioUrl, srtUrl, history>>
    /\ UNCHANGED <<routerVars, retryVars, providerVars, voiceVars, playbackVars, orchVars>>

\* ApiOrchestrator.generateScript has rejected: the catch and finally blocks
GenerationRejects(g) ==
    /\ g \in DOMAIN gens
    /\ gens[g].pc = "generateScript"
    /\ gens' = [gens EXCEPT ![g].pc = "failed"]
    /\ progress' = 0
    /\ isAgentThinking' = FALSE
    /\ UNCHANGED <<state, script, segments, keySegments, keyThinking, clock, edits, runs,
                   tasks, fullAudioUrl, srtUrl, history, timers>>
    /\ UNCHANGED <<routerVars, retryVars, providerVars, voiceVars, playbackVars, orchVars>>

(***************************************************************************)
(* App: playback (part_003 106-124, 163-201, 401-427).  A buffer source is *)
(* named by the playVoiceSample invocation that created it.                *)
(***************************************************************************)
MaxPreviews == 2

\* no script generation was requested
GenIdle ==
    /\ isAgentThinking = FALSE
    /\ gens = <<>>

\* the orchestrator was not called and nothing is stored
OrchIdle ==
    /\ orch = {}
    /\ masterHistory = [parses |-> TRUE, entries |-> <<>>]

\* nothing was played since the mount effect made the audio element
PlaybackIdle ==
    /\ previews = <<>>
    /\ currentSourceRef = {}
    /\ playing = {}
    /\ audio = [src |-> {}, paused |-> TRUE]
    /\ activePreviewId = {}
    /\ playbackState = [segmentId |-> {}, isPlaying |-> FALSE]

\* part_003 164-167: the source the ref holds is stopped and the ref cleared
StopSource ==
    /\ playing' = playing \ currentSourceRef
    /\ currentSourceRef' = {}

\* part_003 168-170: audioControllerRef.current.pause()
Paused(a) == [a EXCEPT !.paused = TRUE]

\* stopCurrentPlayback() (part_003 163-173)
StopCurrentPlayback ==
    /\ StopSource
    /\ audio' = Paused(audio)
    /\ activePreviewId' = {}
    /\ playbackState' = [playbackState EXCEPT !.isPlaying = FALSE, !.segmentId = {}]

\* the voices whose preview button is pressed
PreviewVoices == {"pro-1", "free-1"}

\* playVoiceSample(voice) up to its first await (part_003 175-182)
PlayVoiceSampleCall ==
    /\ Len(previews) < MaxPreviews
    /\ \E voice \in PreviewVoices :
          /\ previews' = Append(previews, [pc |-> "synthesis", voice |-> voice])
          /\ activePreviewId' = {<<"voice", voice>>}
    /\ StopSource
    /\ audio' = Paused(audio)
    /\ playbackState' = [playbackState EXCEPT !.isPlaying = FALSE, !.segmentId = {}]
    /\ UNCHANGED <<routerVars, retryVars, providerVars, voiceVars, appVars, genVars, orchVars>>

\* the sample of invocation p is synthesized: its source is made, put into
\* the ref and started (part_003 191-196)
PreviewResolves(p) ==
    /\ p \in DOMAIN previews
    /\ previews[p].pc = "synthesis"
    /\ previews' = [previews EXCEPT ![p].pc = "started"]
    /\ currentSourceRef' = {p}
    /\ playing' = playing \cup {p}
    /\ UNCHANGED <<audio, activePreviewId, playbackState>>
    /\ UNCHANGED <<routerVars, retryVars, providerVars, voiceVars, appVars, genVars, orchVars>>

\* the synthesis of the sample fails: the catch block (part_003 197-200)
PreviewRejects(p) ==
    /\ p \in DOMAIN previews
    /\ previews[p].pc = "synthesis"
    /\ previews' = [previews EXCEPT ![p].pc = "failed"]
    /\ activePreviewId' = {}
    /\ UNCHANGED <<currentSourceRef, playing, audio, playbackState>>
    /\ UNCHANGED <<routerVars, retryVars, providerVars, voiceVars, appVars, genVars, orchVars>>

\* a source plays to its end: source.onended (part_003 194)
SourceEnds(p) ==
    /\ p \in playing
    /\ playing' = playing \ {p}
    /\ activePreviewId' = {}
    /\ UNCHANGED <<previews, currentSourceRef, audio, playbackState>>
    /\ UNCHANGED <<routerVars, retryVars, providerVars, voiceVars, appVars, genVars, orchVars>>

\* the audio element plays to its end: audio.onended (part_003 116-119)
AudioEnds ==
    /\ ~audio.paused
    /\ audio' = Paused(audio)
    /\ playbackState' = [playbackState EXCEPT !.isPlaying = FALSE]
    /\ activePreviewId' = {}
    /\ UNCHANGED <<previews, currentSourceRef, playing>>
    /\ UNCHANGED <<routerVars, retryVars, providerVars, voiceVars, appVars, genVars, orchVars>>

\* toggleSegmentPlayback(seg) for a segment with audio (part_003 401-427)
ToggleSegmentPlayback ==
    /\ \E k \in DOMAIN segments :
          LET seg == segments[k]
          IN /\ seg.audioUrl # {}
             /\ IF activePreviewId = {seg.id}
                THEN /\ audio' = [audio EXCEPT !.paused = playbackState.isPlaying]
                     /\ playbackState' = [playbackState EXCEPT !.isPlaying = ~@]
                     /\ UNCHANGED <<currentSourceRef, playing, activePreviewId>>
                ELSE /\ StopSource
                     /\ activePreviewId' = {seg.id}
                     /\ playbackState' = [segmentId |-> {seg.id}, isPlaying |-> TRUE]
                     /\ audio' = [src |-> seg.audioUrl, paused |-> FALSE]
    /\ UNCHANGED previews
    /\ UNCHANGED <<routerVars, retryVars, providerVars, voiceVars, appVars, genVars, orchVars>>

(***************************************************************************)
(* App.handlePodcastProduction (part_003 304-399).  Every invocation is a  *)
(* record of runs: where it is (pc), the state, script and segment list    *)
(* its closure holds, and its local variables.                             *)
(***************************************************************************)
MaxRuns == 2
HistoryLimit == 20

\* buffer.duration of the audio synthesized for a text, and of the watermark
BufferDuration(text) ==
    CASE text = "Welcome." -> 2
      [] text = "Thanks." -> 1
      [] text = "Welcome to Podcast Studio AI." -> 3
      [] OTHER -> 4
WatermarkDuration == 1

\* an invocation that has passed line 305 and awaits ensureAudioContext(ctx)
NewRun(st, scr, segs) ==
    [pc |-> "ensureAudioContext", state |-> st, script |-> scr,
     segments |-> segs, ttsDecision |-> {}, allSegments |-> <<>>, inFlight |-> {},
     audioBuffers |-> <<>>, currentTotalTime |-> 0, artifact |-> {}]

\* the outro is put before the script segments
AllSegmentsOutroFirst(r, st, segs) ==
    << Segment(<<"run", r, "intro">>, <<"intro">>, "System", st.introText),
       Segment(<<"run", r, "outro">>, <<"outro">>, "System", st.outroText) >> \o segs

\* const allSegments = [ intro, ...segments, outro ]: the intro and the outro
\* are new objects, the script segments are the objects of the segment list
AllSegments(r, st, segs) ==
    << Segment(<<"run", r, "intro">>, <<"intro">>, "System", st.introText) >>
    \o segs
    \o << Segment(<<"run", r, "outro">>, <<"outro">>, "System", st.outroText) >>

\* Math.round(num / den * 90) for the small num and den of the model
SynthesisProgress(num, den) == (2 * num * 90 + den) \div (2 * den)

\* the calls for segment i and for the one after it are issued together
IssueSynthesisAhead(run, i) ==
    [run EXCEPT !.pc = "synthesis",
                !.inFlight = @ \cup {[index |-> j, voice |-> {}] :
                                       j \in {i, i + 1} \cap DOMAIN run.allSegments}]

\* one iteration of the loop up to its await (part_003 330-352): the voice of
\* allSegments[i] is resolved and its synthesis call is issued
IssueSynthesis(run, i) ==
    LET seg == run.allSegments[i]
        ttsDecision == CHOOSE d \in run.ttsDecision : TRUE
        voice == ResolveVoice(seg.speaker, run.state.speakerVoiceMap,
                              IsGeminiEngine(ttsDecision))
    IN [run EXCEPT !.pc = "synthesis",
                   !.inFlight = @ \cup {[index |-> i, voice |-> voice]}]

Buffer(segmentId, duration) == [segmentId |-> segmentId, duration |-> duration]

\* the rest of the iteration (part_003 354-357), on the run's own variables
Accumulate(run, i, duration) ==
    [run EXCEPT !.allSegments = Assign(@, run.allSegments[i].obj,
                                       run.currentTotalTime, duration),
                !.currentTotalTime = @ + duration,
                !.audioBuffers = Append(@, Buffer(run.allSegments[i].id, duration))]

\* every tier but ENTERPRISE is watermarked
NeedsWatermarkBelowEnterprise(tier) == tier # "ENTERPRISE"

\* if (state.tier === UserTier.FREE)
NeedsWatermark(tier) == tier = "FREE"

\* the encoder applied to the master buffer (part_003 368-370)
Encoder(exportFormat) ==
    IF exportFormat = "MP3" \/ exportFormat = "OGG"
    THEN "audioBufferToMp3" ELSE "audioBufferToWav"

\* the container an encoder writes: each encoder takes the master buffer
\* only, so it writes one container whatever the export format is
ContainerOf(encoder) == IF encoder = "audioBufferToMp3" THEN "MP3" ELSE "WAV"

\* part_003 367-372: the buffers are concatenated and encoded, the subtitles
\* are generated from allSegments
Assemble(run) ==
    [run EXCEPT !.pc = "done",
                !.artifact = {[buffers |-> run.audioBuffers,
                               encoder |-> Encoder(run.state.exportFormat),
                               srt |-> [k \in DOMAIN run.allSegments |->
                                          [startTime |-> run.allSegments[k].startTime,
                                           duration |-> run.allSegments[k].duration]]]}]

\* a failed run assembles what it has
AbortAssembling(run) == [Assemble(run) EXCEPT !.pc = "failed", !.inFlight = {}]

\* the catch block leaves the run with what it has, unassembled
Abort(run) == [run EXCEPT !.pc = "failed", !.inFlight = {}]

AudioUrl(r) == <<"blob", "audio", r>>
SrtUrl(r) == <<"blob", "srt", r>>

HistoryEntry(r, run) ==
    [audioUrl |-> AudioUrl(r), script |-> run.script,
     modelUsed |-> (CHOOSE d \in run.ttsDecision : TRUE).model.name]

Min(a, b) == IF a <= b THEN a ELSE b

\* the lists the invocations hold, after the fields of obj were assigned
SharedInRuns(rs, obj, startTime, duration) ==
    [q \in DOMAIN rs |->
        [rs[q] EXCEPT !.allSegments = Assign(@, obj, startTime, duration),
                      !.segments = Assign(@, obj, startTime, duration)]]

SharedInTasks(ts, obj, startTime, duration) ==
    [q \in DOMAIN ts |->
        [ts[q] EXCEPT !.seg = Assign(<<@>>, obj, startTime, duration)[1]]]

\* the production button (enabled by part_003 722), and line 305
RequestProductionButton ==
    /\ Len(runs) < MaxRuns
    /\ ~state.isGenerating
    /\ ScriptLength(script) >= 10
    /\ Len(segments) # 0
    /\ runs' = Append(runs, NewRun(state, script, segments))
    /\ UNCHANGED <<state, script, segments, keySegments, keyThinking, clock, edits, tasks,
                   fullAudioUrl, srtUrl, history, progress, timers>>
    /\ UNCHANGED <<routerVars, retryVars, providerVars, voiceVars, playbackVars, genVars, orchVars>>

\* Ctrl/Cmd+Enter (part_003 100): the registered handler calls the
\* handlePodcastProduction of the render it was registered in, and line 305
RequestProductionKey ==
    /\ Len(runs) < MaxRuns
    /\ ~state.isGenerating
    /\ Len(keySegments) # 0
    /\ runs' = Append(runs, NewRun(state, script, keySegments))
    /\ UNCHANGED <<state, script, segments, keySegments, keyThinking, clock, edits, tasks,
                   fullAudioUrl, srtUrl, history, progress, timers>>
    /\ UNCHANGED <<routerVars, retryVars, providerVars, voiceVars, playbackVars, genVars, orchVars>>

\* ensureAudioContext(ctx) has resolved: part_003 310-352 up to the first await
\* of the loop.  The state changes, so the key handler is registered again.
RunBegins(r) ==
    /\ r \in DOMAIN runs
    /\ runs[r].pc = "ensureAudioContext"
    /\ state' = [state EXCEPT !.isGenerating = TRUE]
    /\ fullAudioUrl' = {}
    /\ srtUrl' = {}
    /\ LET run == runs[r]
           begun == [run EXCEPT
                       !.ttsDecision = {TtsDecision(run.state.quality, run.state.apiKeys)},
                       !.allSegments = AllSegments(r, run.state, run.segments)]
       IN /\ runs' = [runs EXCEPT ![r] = IssueSynthesis(begun, 1)]
          /\ progress' = SynthesisProgress(0, Len(begun.allSegments))
    /\ keySegments' = segments
    /\ keyThinking' = isAgentThinking
    /\ StopCurrentPlayback
    /\ UNCHANGED <<script, segments, clock, edits, tasks, history, timers, previews>>
    /\ UNCHANGED <<routerVars, retryVars, providerVars, voiceVars, genVars, orchVars>>

\* the finally block writes the defaults of the tier and quality back
FinallyStateDefaults(prev) == InitialState(prev.tier, prev.quality)

\* setState(prev => ({ ...prev, isGenerating: false })) (part_003 397)
FinallyState(prev) == [prev EXCEPT !.isGenerating = FALSE]

\* part_003 373-392 and 397: the artifact of run r is published
Publish(r, run) ==
    /\ fullAudioUrl' = {AudioUrl(r)}
    /\ srtUrl' = {SrtUrl(r)}
    /\ progress' = 100
    /\ history' = SubSeq(<<HistoryEntry(r, run)>> \o history, 1,
                         Min(HistoryLimit, Len(history) + 1))
    /\ timers' = timers + 1
    /\ state' = FinallyState(state)

\* the synthesis call of a segment (and the decoding of its audio) has
\* succeeded: part_003 354-357, then the next iteration up to its await, or
\* part_003 360-363 after the last one, or all of 360-397 without a watermark
SynthesisResolves(r) ==
    /\ r \in DOMAIN runs
    /\ runs[r].pc = "synthesis"
    /\ \E c \in runs[r].inFlight :
          LET run == runs[r]
              i == c.index
              duration == BufferDuration(run.allSegments[i].text)
              obj == run.allSegments[i].obj
              acc == [Accumulate(run, i, duration) EXCEPT !.inFlight = @ \ {c}]
              startTime == CHOOSE t \in acc.allSegments[i].startTime : TRUE
              InPlace(list) == Assign(list, obj, startTime, duration)
              next == IF i < Len(run.allSegments) THEN IssueSynthesis(acc, i + 1)
                      ELSE IF NeedsWatermark(run.state.tier)
                      THEN [acc EXCEPT !.pc = "watermark"]
                      ELSE Assemble(acc)
          IN /\ runs' = [SharedInRuns(runs, obj, startTime, duration) EXCEPT
                            ![r] = [next EXCEPT !.segments = InPlace(@)]]
             /\ tasks' = SharedInTasks(tasks, obj, startTime, duration)
             /\ segments' = InPlace(segments)
             /\ IF next.pc = "done"
                THEN /\ Publish(r, next)
                     /\ keySegments' = InPlace(segments)
                     /\ keyThinking' = isAgentThinking
                ELSE /\ progress' = IF i < Len(run.allSegments)
                                     THEN SynthesisProgress(i, Len(run.allSegments))
                                     ELSE 95
                     /\ keySegments' = InPlace(keySegments)
                     /\ keyThinking' = keyThinking
                     /\ UNCHANGED <<state, fullAudioUrl, srtUrl, history, timers>>
    /\ UNCHANGED <<script, clock, edits>>
    /\ UNCHANGED <<routerVars, retryVars, providerVars, voiceVars, playbackVars, genVars, orchVars>>

\* the catch block without the finally block: the flag stays set
SynthesisRejectsNoFinally(r) ==
    /\ r \in DOMAIN runs
    /\ runs[r].pc = "synthesis"
    /\ runs[r].inFlight # {}
    /\ runs' = [runs EXCEPT ![r] = Abort(@)]
    /\ progress' = 0
    /\ keySegments' = segments
    /\ keyThinking' = isAgentThinking
    /\ UNCHANGED <<state, script, segments, clock, edits, tasks, fullAudioUrl, srtUrl,
                   history, timers>>
    /\ UNCHANGED <<routerVars, retryVars, providerVars, voiceVars, playbackVars, genVars, orchVars>>

\* the synthesis call of a segment (or the decoding of its audio) has failed:
\* the catch and finally blocks (part_003 393-398)
SynthesisRejects(r) ==
    /\ r \in DOMAIN runs
    /\ runs[r].pc = "synthesis"
    /\ runs[r].inFlight # {}
    /\ runs' = [runs EXCEPT ![r] = Abort(@)]
    /\ progress' = 0
    /\ state' = FinallyState(state)
    /\ keySegments' = segments
    /\ keyThinking' = isAgentThinking
    /\ UNCHANGED <<script, segments, clock, edits, tasks, fullAudioUrl, srtUrl,
                   history, timers>>
    /\ UNCHANGED <<routerVars, retryVars, providerVars, voiceVars, playbackVars, genVars, orchVars>>

\* createWatermarkBuffer(ctx) has resolved: part_003 364-392 and 397
WatermarkResolves(r) ==
    /\ r \in DOMAIN runs
    /\ runs[r].pc = "watermark"
    /\ LET run == runs[r]
           marked == [run EXCEPT !.audioBuffers =
                         Append(@, Buffer(<<"watermark">>, WatermarkDuration))]
       IN /\ runs' = [runs EXCEPT ![r] = Assemble(marked)]
          /\ Publish(r, marked)
    /\ keySegments' = segments
    /\ keyThinking' = isAgentThinking
    /\ UNCHANGED <<script, segments, clock, edits, tasks>>
    /\ UNCHANGED <<routerVars, retryVars, providerVars, voiceVars, playbackVars, genVars, orchVars>>

\* createWatermarkBuffer(ctx) has failed: the catch and finally blocks
WatermarkRejects(r) ==
    /\ r \in DOMAIN runs
    /\ runs[r].pc = "watermark"
    /\ runs' = [runs EXCEPT ![r] = Abort(@)]
    /\ progress' = 0
    /\ state' = FinallyState(state)
    /\ keySegments' = segments
    /\ keyThinking' = isAgentThinking
    /\ UNCHANGED <<script, segments, clock, edits, tasks, fullAudioUrl, srtUrl,
                   history, timers>>
    /\ UNCHANGED <<routerVars, retryVars, providerVars, voiceVars, playbackVars, genVars, orchVars>>

\* the last awaited call of the run has resolved and concatenateAudioBuffers,
\* the encoder, generateSRT or URL.createObjectURL throws (part_003 367-372):
\* the statements before the throw, then the catch and finally blocks
AssemblyThrows(r) ==
    /\ r \in DOMAIN runs
    /\ \/ /\ runs[r].pc = "watermark"
          /\ runs' = [runs EXCEPT ![r] =
                         Abort([@ EXCEPT !.audioBuffers =
                                   Append(@, Buffer(<<"watermark">>, WatermarkDuration))])]
          /\ keySegments' = segments
          /\ keyThinking' = isAgentThinking
          /\ UNCHANGED <<segments, tasks>>
       \/ /\ runs[r].pc = "synthesis"
          /\ ~NeedsWatermark(runs[r].state.tier)
          /\ \E c \in runs[r].inFlight :
                LET run == runs[r]
                    i == c.index
                    duration == BufferDuration(run.allSegments[i].text)
                    obj == run.allSegments[i].obj
                    acc == Accumulate(run, i, duration)
                    startTime == CHOOSE t \in acc.allSegments[i].startTime : TRUE
                    InPlace(list) == Assign(list, obj, startTime, duration)
                IN /\ i = Len(run.allSegments)
                   /\ runs' = [SharedInRuns(runs, obj, startTime, duration) EXCEPT
                                  ![r] = [Abort(acc) EXCEPT !.segments = InPlace(@)]]
                   /\ tasks' = SharedInTasks(tasks, obj, startTime, duration)
                   /\ segments' = InPlace(segments)
                   /\ keySegments' = InPlace(segments)
                   /\ keyThinking' = isAgentThinking
    /\ progress' = 0
    /\ state' = FinallyState(state)
    /\ UNCHANGED <<script, clock, edits, fullAudioUrl, srtUrl, history, timers>>
    /\ UNCHANGED <<routerVars, retryVars, providerVars, voiceVars, playbackVars, genVars, orchVars>>

\* a setTimeout callback of part_003 392 runs: setProgress({ percent: 0, ... })
ProgressResetFires ==
    /\ timers > 0
    /\ timers' = timers - 1
    /\ progress' = 0
    /\ UNCHANGED <<state, script, segments, keySegments, keyThinking, clock, edits, runs, tasks,
                   fullAudioUrl, srtUrl, history>>
    /\ UNCHANGED <<routerVars, retryVars, providerVars, voiceVars, playbackVars, genVars, orchVars>>

\* export const DEFAULT_SCRIPT (part_002 13-15)
DefaultScript ==
    << Line({"Host"}, "Welcome to AI Horizons. I'm Alex.", 39),
       Line({"Guest"}, "And I'm Jordan. Today we explore the edge of technology.", 63),
       Line({"Host"}, "Let's get started.", 24) >>

\* JSON.parse(localStorage.getItem('podcast-studio-v16-state')) of the item
\* the persistence effect (part_003 128) wrote for the state st: every field
\* of the state is written and read back, an undefined key is left out and
\* read back as undefined
Restored(st) ==
    [tier |-> st.tier, quality |-> st.quality, exportFormat |-> st.exportFormat,
     apiKeys |-> [k \in DOMAIN st.apiKeys |-> st.apiKeys[k]],
     isGenerating |-> st.isGenerating,
     introText |-> st.introText, outroText |-> st.outroText,
     speakerVoiceMap |-> st.speakerVoiceMap]

\* parsed.script || DEFAULT_SCRIPT (part_003 39-48), of the saved draft
RestoredScript(scr) == IF scr = <<>> THEN DefaultScript ELSE scr

\* the invocations of a page that was unloaded never continue
Unloaded(list) ==
    [q \in DOMAIN list |->
        IF list[q].pc \in {"done", "failed"} THEN list[q]
        ELSE [list[q] EXCEPT !.pc = "unloaded"]]

\* the page is reloaded after the draft was saved: the state initializers
\* (part_003 20-69) and the effects of the first render (106-157)
Reload ==
    /\ state' = Restored(state)
    /\ script' = RestoredScript(script)
    /\ segments' = IF state'.isGenerating THEN <<>>
                   ELSE Segmentation(script', <<>>, clock, edits)
    /\ keySegments' = <<>>
    /\ keyThinking' = FALSE
    /\ runs' = [r \in DOMAIN runs |-> [Unloaded(runs)[r] EXCEPT !.inFlight = {}]]
    /\ tasks' = Unloaded(tasks)
    /\ fullAudioUrl' = {}
    /\ srtUrl' = {}
    /\ progress' = 0
    /\ timers' = 0
    /\ previews' = <<>>
    /\ currentSourceRef' = {}
    /\ playing' = {}
    /\ audio' = [src |-> {}, paused |-> TRUE]
    /\ activePreviewId' = {}
    /\ playbackState' = [segmentId |-> {}, isPlaying |-> FALSE]
    /\ isAgentThinking' = FALSE
    /\ gens' = Unloaded(gens)
    /\ UNCHANGED <<clock, edits, history>>
    /\ UNCHANGED <<routerVars, retryVars, providerVars, voiceVars, orchVars>>

(***************************************************************************)
(* App.synthesizeSegment (part_003 203-237).  Every invocation is a record *)
(* of tasks: where it is (pc), and the segment and the state its closure   *)
(* holds.                                                                  *)
(***************************************************************************)
MaxTasks == 2

\* an invocation that has passed line 205 and awaits ensureAudioContext(ctx)
NewTask(seg, st) == [pc |-> "ensureAudioContext", seg |-> seg, state |-> st, voice |-> {}]

\* prev.map(s => s.id === seg.id ? { ...s, ...update } : s) in invocation t:
\* update has the new status, and the audioUrl and duration when it sets them
UpdateById(prev, id, t, phase, update) ==
    [k \in DOMAIN prev |->
        IF prev[k].id = id
        THEN [prev[k] EXCEPT !.obj = <<"copy", t, phase, k>>,
                             !.status = update.status,
                             !.audioUrl = IF update.audioUrl # {} THEN update.audioUrl ELSE @,
                             !.duration = IF update.duration # {} THEN update.duration ELSE @]
        ELSE prev[k]]

StatusUpdate(status) == [status |-> status, audioUrl |-> {}, duration |-> {}]

SegmentAudioUrl(t) == <<"blob", "segment", t>>

\* the Synthesize button of a segment row (rendered while the segment is
\* pending, part_003 568), and line 205
RequestSynthesize ==
    /\ Len(tasks) < MaxTasks
    /\ ~state.isGenerating
    /\ \E k \in DOMAIN segments :
          /\ segments[k].status = "pending"
          /\ tasks' = Append(tasks, NewTask(segments[k], state))
    /\ UNCHANGED <<state, script, segments, keySegments, keyThinking, clock, edits, runs,
                   fullAudioUrl, srtUrl, history, progress, timers>>
    /\ UNCHANGED <<routerVars, retryVars, providerVars, voiceVars, playbackVars, genVars, orchVars>>

\* ensureAudioContext(ctx) has resolved: part_003 208-224 up to the await of
\* the synthesis call
TaskBegins(t) ==
    /\ t \in DOMAIN tasks
    /\ tasks[t].pc = "ensureAudioContext"
    /\ segments' = UpdateById(segments, tasks[t].seg.id, t, "generating",
                              StatusUpdate("generating"))
    /\ LET task == tasks[t]
           ttsDecision == TtsDecision(task.state.quality, task.state.apiKeys)
       IN tasks' = [tasks EXCEPT ![t] =
                       [task EXCEPT !.pc = "synthesis",
                                    !.voice = ResolveVoice(task.seg.speaker,
                                                           task.state.speakerVoiceMap,
                                                           IsGeminiEngine(ttsDecision))]]
    /\ UNCHANGED <<state, script, keySegments, keyThinking, clock, edits, runs,
                   fullAudioUrl, srtUrl, history, progress, timers>>
    /\ UNCHANGED <<routerVars, retryVars, providerVars, voiceVars, playbackVars, genVars, orchVars>>

\* the synthesis call has succeeded: part_003 226-232
TaskResolves(t) ==
    /\ t \in DOMAIN tasks
    /\ tasks[t].pc = "synthesis"
    /\ segments' = UpdateById(segments, tasks[t].seg.id, t, "completed",
                              [status |-> "completed",
                               audioUrl |-> {SegmentAudioUrl(t)},
                               duration |-> {BufferDuration(tasks[t].seg.text)}])
    /\ tasks' = [tasks EXCEPT ![t].pc = "done"]
    /\ UNCHANGED <<state, script, keySegments, keyThinking, clock, edits, runs,
                   fullAudioUrl, srtUrl, history, progress, timers>>
    /\ UNCHANGED <<routerVars, retryVars, providerVars, voiceVars, playbackVars, genVars, orchVars>>

\* the synthesis call has failed: the catch block (part_003 233-236)
TaskRejects(t) ==
    /\ t \in DOMAIN tasks
    /\ tasks[t].pc = "synthesis"
    /\ segments' = UpdateById(segments, tasks[t].seg.id, t, "error", StatusUpdate("error"))
    /\ tasks' = [tasks EXCEPT ![t].pc = "failed"]
    /\ UNCHANGED <<state, script, keySegments, keyThinking, clock, edits, runs,
                   fullAudioUrl, srtUrl, history, progress, timers>>
    /\ UNCHANGED <<routerVars, retryVars, providerVars, voiceVars, playbackVars, genVars, orchVars>>

(***************************************************************************)
(* Specifications                                                          *)
(***************************************************************************)
RouterIdle ==
    /\ rEarlier = NoCall
    /\ rLast = NoCall

RetryIdle ==
    /\ retryPc = "idle"
    /\ retries = DefaultRetries
    /\ delay = DefaultDelay
    /\ invocations = 0
    /\ delays = <<>>
    /\ result = Pending

ProviderIdle == call = NoProviderCall

VoiceIdle == vResolved = {}

AppIdle ==
    /\ state = InitialState("FREE", "balanced")
    /\ script = <<>>
    /\ segments = <<>>
    /\ keySegments = <<>>
    /\ keyThinking = FALSE
    /\ clock = 0
    /\ edits = 0
    /\ runs = <<>>
    /\ tasks = <<>>
    /\ fullAudioUrl = {}
    /\ srtUrl = {}
    /\ history = <<>>
    /\ progress = 0
    /\ timers = 0

\* the router is called with every task and every key set
RouterInit ==
    /\ RouterIdle
    /\ RetryIdle
    /\ fn = <<Resolve("v1")>>
    /\ ProviderIdle
    /\ VoiceIdle
    /\ AppIdle
    /\ PlaybackIdle
    /\ GenIdle
    /\ OrchIdle

RouterNext == SelectModelCall

SpecRouter == RouterInit /\ [][RouterNext]_vars

\* withRetry wraps every fn: an outcome for each of the invocations it can make
RetryInit ==
    /\ RouterIdle
    /\ RetryIdle
    /\ fn \in [1..(DefaultRetries + 1) -> FnOutcomes]
    /\ ProviderIdle
    /\ VoiceIdle
    /\ AppIdle
    /\ PlaybackIdle
    /\ GenIdle
    /\ OrchIdle

RetryNext ==
    \/ WithRetryCall
    \/ FnResolves
    \/ FnRejectsRetry
    \/ FnRejectsThrow
    \/ SleepElapses

SpecRetry == RetryInit /\ [][RetryNext]_vars

\* a caller invokes one of the three provider methods; the two Gemini methods
\* hand their request to withRetry as fn, PollinationsService.generateScript
\* fetches once
ProviderInit ==
    /\ RouterIdle
    /\ RetryIdle
    /\ \/ /\ call \in GeminiCalls
          /\ fn \in [1..(DefaultRetries + 1) ->
                       {GeminiFn(call, outcome) : outcome \in ContentOutcomes}]
       \/ /\ call = "pollinations.generateScript"
          /\ fn \in {<<outcome>> : outcome \in FetchOutcomes}
    /\ VoiceIdle
    /\ AppIdle
    /\ PlaybackIdle
    /\ GenIdle
    /\ OrchIdle

ProviderNext ==
    \/ (call \in GeminiCalls /\ RetryNext)
    \/ PollinationsGenerateScriptCall
    \/ PollinationsFetchResolves
    \/ PollinationsFetchRejects

SpecProvider == ProviderInit /\ [][ProviderNext]_vars

\* generateScript is called once, with something stored
OrchestratorInit ==
    /\ RouterIdle
    /\ RetryIdle
    /\ fn = <<Resolve("v1")>>
    /\ ProviderIdle
    /\ VoiceIdle
    /\ AppIdle
    /\ PlaybackIdle
    /\ GenIdle
    /\ orch = {}
    /\ masterHistory \in StoredHistories

OrchestratorNext ==
    \/ GenerateScriptCall
    \/ ProviderScriptResolves
    \/ ProviderScriptRejects

SpecOrchestrator == OrchestratorInit /\ [][OrchestratorNext]_vars

\* voices are resolved for every speaker, map and decision
VoiceInit ==
    /\ RouterIdle
    /\ RetryIdle
    /\ fn = <<Resolve("v1")>>
    /\ ProviderIdle
    /\ VoiceIdle
    /\ AppIdle
    /\ PlaybackIdle
    /\ GenIdle
    /\ OrchIdle

VoiceNext == ResolveVoiceCall

SpecVoice == VoiceInit /\ [][VoiceNext]_vars

\* the AppState the studio is mounted with: the initial one, or one of local
\* storage with the tier, the quality and the export format chosen earlier
StoredStates ==
    { InitialState("FREE", "balanced"),
      [InitialState("PRO", "premium") EXCEPT !.exportFormat = "OGG"],
      [InitialState("ENTERPRISE", "balanced") EXCEPT !.exportFormat = "WAV"] }

\* the studio after it was mounted: the state and the script of a new
\* installation or of local storage, the segments of the script, and a key
\* handler registered in the first render, when the segment list was empty
AppInit ==
    /\ RouterIdle
    /\ RetryIdle
    /\ fn = <<Resolve("v1")>>
    /\ ProviderIdle
    /\ VoiceIdle
    /\ PlaybackIdle
    /\ GenIdle
    /\ OrchIdle
    /\ state \in StoredStates
    /\ script \in {<<>>, <<LineHost>>, <<LineHost, LineGuest>>}
    /\ segments = Segmentation(script, <<>>, 0, 0)
    /\ keySegments = <<>>
    /\ keyThinking = FALSE
    /\ clock = 0
    /\ edits = 0
    /\ runs = <<>>
    /\ tasks = <<>>
    /\ fullAudioUrl = {}
    /\ srtUrl = {}
    /\ history = <<>>
    /\ progress = 0
    /\ timers = 0

\* production runs, while the script is edited
ProductionNext ==
    \/ SetScript
    \/ RequestProductionButton
    \/ RequestProductionKey
    \/ \E r \in 1..MaxRuns : RunBegins(r)
    \/ \E r \in 1..MaxRuns : SynthesisResolves(r)
    \/ \E r \in 1..MaxRuns : SynthesisRejects(r)
    \/ \E r \in 1..MaxRuns : WatermarkResolves(r)
    \/ \E r \in 1..MaxRuns : WatermarkRejects(r)
    \/ \E r \in 1..MaxRuns : AssemblyThrows(r)
    \/ ProgressResetFires

SpecProduction == AppInit /\ [][ProductionNext]_vars

\* an awaited call of run r settles
Settles(r) ==
    \/ SynthesisResolves(r)
    \/ SynthesisRejects(r)
    \/ WatermarkResolves(r)
    \/ WatermarkRejects(r)
    \/ AssemblyThrows(r)

\* production runs of one script, every awaited call of which settles
RunsNext ==
    \/ RequestProductionButton
    \/ \E r \in 1..MaxRuns : RunBegins(r)
    \/ \E r \in 1..MaxRuns : Settles(r)
    \/ ProgressResetFires

SpecRuns ==
    /\ AppInit
    /\ [][RunsNext]_vars
    /\ WF_vars(\E r \in 1..MaxRuns : RunBegins(r) \/ Settles(r))

\* single-segment syntheses and production runs of one script
StudioNext ==
    \/ RequestSynthesize
    \/ \E t \in 1..MaxTasks : TaskBegins(t)
    \/ \E t \in 1..MaxTasks : TaskResolves(t)
    \/ \E t \in 1..MaxTasks : TaskRejects(t)
    \/ RequestProductionButton
    \/ \E r \in 1..MaxRuns : RunBegins(r)
    \/ \E r \in 1..MaxRuns : Settles(r)
    \/ ProgressResetFires

\* the free studio mounted with the script "Host: Welcome."
StudioInit ==
    /\ RouterIdle
    /\ RetryIdle
    /\ fn = <<Resolve("v1")>>
    /\ ProviderIdle
    /\ VoiceIdle
    /\ PlaybackIdle
    /\ GenIdle
    /\ OrchIdle
    /\ state = InitialState("FREE", "balanced")
    /\ script = <<LineHost>>
    /\ segments = Segmentation(script, <<>>, 0, 0)
    /\ keySegments = <<>>
    /\ keyThinking = FALSE
    /\ clock = 0
    /\ edits = 0
    /\ runs = <<>>
    /\ tasks = <<>>
    /\ fullAudioUrl = {}
    /\ srtUrl = {}
    /\ history = <<>>
    /\ progress = 0
    /\ timers = 0

SpecStudio == StudioInit /\ [][StudioNext]_vars

\* production runs of one script, while the settings are changed
SettingsNext ==
    \/ SetExportFormat
    \/ UpgradeTier
    \/ SetSpeakerVoice
    \/ HandleApiKeySave
    \/ RequestProductionButton
    \/ \E r \in 1..MaxRuns : RunBegins(r)
    \/ \E r \in 1..MaxRuns : Settles(r)
    \/ ProgressResetFires

SpecSettings == StudioInit /\ [][SettingsNext]_vars

\* script generations, requested by the button and by the key
GenerationNext ==
    \/ RequestGenerationButton
    \/ RequestGenerationKey
    \/ \E g \in 1..MaxGens : GenerationResolves(g)
    \/ \E g \in 1..MaxGens : GenerationDelayElapses(g)
    \/ \E g \in 1..MaxGens : GenerationRejects(g)
    \/ ProgressResetFires

SpecGeneration == StudioInit /\ [][GenerationNext]_vars

\* production runs, while the page is reloaded
SessionNext ==
    \/ RequestProductionButton
    \/ \E r \in 1..MaxRuns : RunBegins(r)
    \/ \E r \in 1..MaxRuns : SynthesisResolves(r)
    \/ \E r \in 1..MaxRuns : SynthesisRejects(r)
    \/ \E r \in 1..MaxRuns : WatermarkResolves(r)
    \/ \E r \in 1..MaxRuns : WatermarkRejects(r)
    \/ \E r \in 1..MaxRuns : AssemblyThrows(r)
    \/ ProgressResetFires
    \/ Reload

SpecSession == AppInit /\ [][SessionNext]_vars

\* single-segment syntheses, while the script is edited
SegmentNext ==
    \/ SetScript
    \/ RequestSynthesize
    \/ \E t \in 1..MaxTasks : TaskBegins(t)
    \/ \E t \in 1..MaxTasks : TaskResolves(t)
    \/ \E t \in 1..MaxTasks : TaskRejects(t)

SpecSegment == AppInit /\ [][SegmentNext]_vars

\* the studio with the script "Host: Welcome." after the one segment was
\* synthesized by invocation 1 of synthesizeSegment
PlaybackInit ==
    /\ RouterIdle
    /\ RetryIdle
    /\ fn = <<Resolve("v1")>>
    /\ ProviderIdle
    /\ VoiceIdle
    /\ PlaybackIdle
    /\ GenIdle
    /\ OrchIdle
    /\ state = InitialState("FREE", "balanced")
    /\ script = <<LineHost>>
    /\ LET synced == Segmentation(script, <<>>, 0, 0)
           seg == synced[1]
           generating == UpdateById(synced, seg.id, 1, "generating", StatusUpdate("generating"))
           ttsDecision == TtsDecision(state.quality, state.apiKeys)
       IN /\ segments = UpdateById(generating, seg.id, 1, "completed",
                                   [status |-> "completed",
                                    audioUrl |-> {SegmentAudioUrl(1)},
                                    duration |-> {BufferDuration(seg.text)}])
          /\ tasks = << [NewTask(seg, state) EXCEPT
                            !.pc = "done",
                            !.voice = ResolveVoice(seg.speaker, state.speakerVoiceMap,
                                                   IsGeminiEngine(ttsDecision))] >>
    /\ keySegments = <<>>
    /\ keyThinking = FALSE
    /\ clock = 0
    /\ edits = 0
    /\ runs = <<>>
    /\ fullAudioUrl = {}
    /\ srtUrl = {}
    /\ history = <<>>
    /\ progress = 0
    /\ timers = 0

\* voice previews and segment playback, and the start of production runs
PlaybackNext ==
    \/ PlayVoiceSampleCall
    \/ \E p \in 1..MaxPreviews : PreviewResolves(p)
    \/ \E p \in 1..MaxPreviews : PreviewRejects(p)
    \/ \E p \in 1..MaxPreviews : SourceEnds(p)
    \/ AudioEnds
    \/ ToggleSegmentPlayback
    \/ RequestProductionButton
    \/ \E r \in 1..MaxRuns : RunBegins(r)

SpecPlayback == PlaybackInit /\ [][PlaybackNext]_vars

(***************************************************************************)
(* Properties of ModelRouter.selectModel (checked under SpecRouter)        *)
(***************************************************************************)
\* a paid (Pollinations) credential is present: a non-empty key is saved
PaidCredentialPresent(userKeys) == \E k \in userKeys.pollinationsKey : k # ""

\* two calls with the same (task type, quality, requiresReasoning,
\* credential-presence) tuple
SameInputs(a, b) ==
    /\ a.task = b.task
    /\ PaidCredentialPresent(a.userKeys) = PaidCredentialPresent(b.userKeys)

ModelIdOf(c) == IF c.outcome.kind = "return" THEN c.outcome.decision.modelId ELSE "(none)"
CostOf(c) == IF c.outcome.kind = "return" THEN c.outcome.decision.estimatedCost ELSE -1

\* C1: selectModel is deterministic: any two calls with the same (task type,
\* quality, requiresReasoning, credential-presence) tuple have the same outcome
\* (modelId, model, reason, estimatedCost), whatever was called in between.
C1_Deterministic ==
    \A a \in rEarlier, b \in rLast : SameInputs(a, b) => a.outcome = b.outcome

\* two calls with the same tuple but different key objects have both returned
C1_Witness ==
    \E a \in rEarlier, b \in rLast :
        /\ SameInputs(a, b)
        /\ a.userKeys # b.userKeys
        /\ a.outcome.kind = "return"
        /\ b.outcome.kind = "return"

\* C2: a premium script_generation request gets gemini-3-pro-preview, with or
\* without a Pollinations credential and whatever requiresReasoning is.
C2_PremiumScriptIsReasoningTier ==
    \A c \in rLast :
        (c.task.type = "script_generation" /\ c.task.quality = "premium")
            => ModelIdOf(c) = "gemini-3-pro-preview"

\* premium, reasoning not required, no credential: the reasoning tier is chosen
C2_Witness ==
    \E c \in rLast :
        /\ c.task.type = "script_generation"
        /\ c.task.quality = "premium"
        /\ c.task.requiresReasoning = {FALSE}
        /\ ~PaidCredentialPresent(c.userKeys)
        /\ ModelIdOf(c) = "gemini-3-pro-preview"

\* C3 as stated: every balanced script_generation request gets
\* pollinations-script-paid if and only if a paid credential is present, and
\* pollinations-script-free otherwise.
C3_BalancedScriptAsStated ==
    \A c \in rLast :
        (c.task.type = "script_generation" /\ c.task.quality = "balanced")
            => ModelIdOf(c) = (IF PaidCredentialPresent(c.userKeys)
                               THEN "pollinations-script-paid"
                               ELSE "pollinations-script-free")

\* C3 amended: every balanced script_generation request whose requiresReasoning
\* is not set (absent or false) gets pollinations-script-paid if and only if a
\* paid credential is present, and pollinations-script-free otherwise; with
\* requiresReasoning set it gets gemini-3-pro-preview.
C3_BalancedScriptAmended ==
    \A c \in rLast :
        (c.task.type = "script_generation" /\ c.task.quality = "balanced")
            => ModelIdOf(c) = (IF c.task.requiresReasoning = {TRUE}
                               THEN "gemini-3-pro-preview"
                               ELSE IF PaidCredentialPresent(c.userKeys)
                               THEN "pollinations-script-paid"
                               ELSE "pollinations-script-free")

\* balanced without reasoning: an empty key was given the free model after a
\* real key was given the paid model
C3_Witness ==
    \E a \in rEarlier, b \in rLast :
        /\ a.task.type = "script_generation" /\ a.task.quality = "balanced"
        /\ a.task.requiresReasoning # {TRUE}
        /\ PaidCredentialPresent(a.userKeys)
        /\ ModelIdOf(a) = "pollinations-script-paid"
        /\ b.task = a.task
        /\ b.userKeys.pollinationsKey = {""}
        /\ ModelIdOf(b) = "pollinations-script-free"

\* C4: selectModel returns a decision for script_generation, image_generation
\* and audio_synthesis (any quality, any keys) and throws "Unsupported task"
\* for any other task type.
C4_TotalOnDefinedTasks ==
    \A c \in rLast :
        IF c.task.type \in {"script_generation", "image_generation", "audio_synthesis"}
        THEN c.outcome.kind = "return"
        ELSE c.outcome = Throw(<<"Unsupported task: ", c.task.type>>)

\* a call with an empty-string key has returned and a call with an unknown
\* task type has thrown
C4_Witness ==
    \E a \in rEarlier, b \in rLast :
        /\ a.userKeys.pollinationsKey = {""}
        /\ a.outcome.kind = "return"
        /\ b.task.type = "video_generation"
        /\ b.outcome.kind = "throw"

\* C5: an audio_synthesis request gets the premium Gemini engine at a strictly
\* positive cost exactly when quality is premium, the free engine at cost 0
\* otherwise; two audio requests of the same quality get the same decision
\* whatever keys are present.
C5_AudioRouting ==
    /\ \A c \in rLast :
          c.task.type = "audio_synthesis" =>
              /\ c.outcome.kind = "return"
              /\ IF c.task.quality = "premium"
                 THEN /\ ModelIdOf(c) = "gemini-native-audio"
                      /\ c.outcome.decision.model.provider = "gemini"
                      /\ CostOf(c) > 0
                 ELSE /\ ModelIdOf(c) = "edge-neural-voices"
                      /\ CostOf(c) = 0
    /\ \A a \in rEarlier, b \in rLast :
          (/\ a.task.type = "audio_synthesis"
           /\ b.task.type = "audio_synthesis"
           /\ a.task.quality = b.task.quality) => a.outcome = b.outcome

\* premium audio was routed to the Gemini engine with and without a credential
C5_Witness ==
    \E a \in rEarlier, b \in rLast :
        /\ a.task.type = "audio_synthesis" /\ a.task.quality = "premium"
        /\ b.task.type = "audio_synthesis" /\ b.task.quality = "premium"
        /\ PaidCredentialPresent(a.userKeys)
        /\ ~PaidCredentialPresent(b.userKeys)
        /\ ModelIdOf(b) = "gemini-native-audio"

\* C6: an image_generation request gets pollinations-image-flux (non-zero
\* cost) exactly when quality is premium and a paid credential is present, and
\* the free image model at cost 0 in every other case.
C6_ImageRouting ==
    \A c \in rLast :
        c.task.type = "image_generation" =>
            IF c.task.quality = "premium" /\ PaidCredentialPresent(c.userKeys)
            THEN ModelIdOf(c) = "pollinations-image-flux" /\ CostOf(c) > 0
            ELSE ModelIdOf(c) = "pollinations-image-free" /\ CostOf(c) = 0

\* premium image with a credential got flux after premium image with an empty
\* key got the free model
C6_Witness ==
    \E a \in rEarlier, b \in rLast :
        /\ a.task.type = "image_generation" /\ a.task.quality = "premium"
        /\ a.userKeys.pollinationsKey = {""}
        /\ ModelIdOf(a) = "pollinations-image-free"
        /\ b.task.type = "image_generation" /\ b.task.quality = "premium"
        /\ PaidCredentialPresent(b.userKeys)
        /\ ModelIdOf(b) = "pollinations-image-flux"

(***************************************************************************)
(* Properties of GeminiService.withRetry (checked under SpecRetry)         *)
(***************************************************************************)
\* the rate-limit markers: the HTTP status and the resource-exhaustion code
RateLimitMarkers == {<<"429">>, <<"RESOURCE_EXHAUSTED">>}

\* the error's message or its serialized form contains a rate-limit marker
HasRateLimitMarker(error) ==
    \E marker \in RateLimitMarkers :
        \/ \E m \in error.message : Includes(m, marker)
        \/ Includes(JSONstringify(error), marker)

\* the i-th invocation of fn fails, with or without a rate-limit marker
FailsMarked(i) == \E e \in fn[i].error : HasRateLimitMarker(e)
FailsUnmarked(i) == \E e \in fn[i].error : ~HasRateLimitMarker(e)

\* the number of invocations of fn whose promise has settled
Settled == IF retryPc = "awaitFn" THEN invocations - 1 ELSE invocations

\* C7: when fn fails twice with a rate-limit marker and then succeeds, the call
\* ends with exactly the delays 2000 and 4000, three invocations of fn and the
\* value of the third invocation.
C7_TwoFailuresThenSuccess ==
    (/\ retryPc = "done"
     /\ FailsMarked(1)
     /\ FailsMarked(2)
     /\ fn[3].kind = "resolve")
        => /\ delays = <<2000, 4000>>
           /\ invocations = 3
           /\ result = fn[3]

\* C8: a failure of fn without a rate-limit marker, at the first or at a later
\* invocation, ends the call: no delay follows, fn is not invoked again and the
\* same error is the call's rejection.
C8_UnmarkedErrorPropagates ==
    \A i \in 1..Settled :
        FailsUnmarked(i) =>
            /\ retryPc = "done"
            /\ invocations = i
            /\ Len(delays) = i - 1
            /\ result = fn[i]

\* the third invocation failed without a marker after two retried failures
C8_Witness ==
    /\ retryPc = "done"
    /\ invocations = 3
    /\ FailsUnmarked(3)
    /\ delays = <<2000, 4000>>
    /\ result = fn[3]

\* C9: with the defaults fn is invoked at most 4 times, the delays are 2000,
\* 4000, 8000 in that order, and a failure of the 4th invocation ends the call
\* with that error and no further delay.
C9_BoundedAttempts ==
    /\ invocations <= 4
    /\ Len(delays) <= 3
    /\ delays = SubSeq(<<2000, 4000, 8000>>, 1, Len(delays))
    /\ (Settled = 4 /\ fn[4].kind = "reject") =>
            /\ retryPc = "done"
            /\ result = fn[4]
            /\ delays = <<2000, 4000, 8000>>

\* four invocations failed with a rate-limit error and the last one is thrown
C9_Witness ==
    /\ retryPc = "done"
    /\ invocations = 4
    /\ \A i \in 1..4 : \E e \in fn[i].error : IsRateLimit(e)
    /\ result = fn[4]
    /\ delays = <<2000, 4000, 8000>>

\* C10: an error is retried (while retries are left) if and only if its message
\* or its serialized form contains 429 or RESOURCE_EXHAUSTED.
C10_RetryableIffMarker ==
    \A i \in 1..Settled :
        (fn[i].kind = "reject" /\ i <= DefaultRetries) =>
            (FailsMarked(i) <=> (invocations > i \/ retryPc = "sleeping"))

(***************************************************************************)
(* Properties of the outbound provider calls (checked under SpecProvider)  *)
(***************************************************************************)
\* the error carries the HTTP status 429, in its message or its serialized form
Carries429(error) ==
    \/ \E m \in error.message : Includes(m, <<"429">>)
    \/ Includes(JSONstringify(error), <<"429">>)

\* C11: a rate-limit error (HTTP 429) of an outbound provider call (Gemini
\* script generation, Gemini speech synthesis, Pollinations script generation)
\* reaches the caller only after the retry policy has used up its retries: the
\* request was issued 1 + 3 times and the three delays have passed.
C11_RateLimitAfterRetries ==
    (/\ call \in ProviderCalls
     /\ retryPc = "done"
     /\ \E e \in result.error : Carries429(e))
        => /\ invocations = DefaultRetries + 1
           /\ Len(delays) = DefaultRetries

(***************************************************************************)
(* Properties of App.handlePodcastProduction (checked under SpecProduction)*)
(***************************************************************************)
\* the invocations that are in their synthesis loop or past it, not yet ended
ActiveRuns == {r \in DOMAIN runs : runs[r].pc \in {"synthesis", "watermark"}}

\* C12: at most one production run is active at any time: a request (button or
\* Ctrl/Cmd+Enter) made while another run is in flight starts no second
\* synthesis loop, also when two requests are made before the isGenerating
\* flag of the first is visible.
C12_AtMostOneRunActive == Cardinality(ActiveRuns) <= 1

\* C13: a production run in which the synthesis of a segment failed has ended
\* in failure with no partial artifact: its buffers were not assembled or
\* encoded, no master audio URL and no subtitle URL of it is published, and
\* the history has no entry of it.
C13_NoPartialArtifact ==
    \A r \in DOMAIN runs :
        runs[r].pc = "failed" =>
            /\ runs[r].artifact = {}
            /\ AudioUrl(r) \notin fullAudioUrl
            /\ SrtUrl(r) \notin srtUrl
            /\ \A k \in DOMAIN history : history[k].audioUrl # AudioUrl(r)

\* the synthesis of the 4th of 4 segments failed after 3 buffers were produced
C13_Witness ==
    \E r \in DOMAIN runs :
        /\ runs[r].pc = "failed"
        /\ Len(runs[r].allSegments) = 4
        /\ Len(runs[r].audioBuffers) = 3

\* the segment list a run works on is the intro, the n segments of the
\* segment list its invocation holds, in their order, and the outro
IntroScriptOutro(run) ==
    LET all == run.allSegments
        n == Len(run.segments)
    IN /\ Len(all) = n + 2
       /\ all[1].id = <<"intro">>
       /\ all[n + 2].id = <<"outro">>
       /\ \A k \in 1..n :
             /\ all[k + 1].id = run.segments[k].id
             /\ all[k + 1].speaker = run.segments[k].speaker
             /\ all[k + 1].text = run.segments[k].text

DurationsUpTo(buffers, n) == SumOf([k \in DOMAIN buffers |-> buffers[k].duration], n)

\* the segments of a run that have been synthesized
Synthesized(run) == Min(Len(run.audioBuffers), Len(run.allSegments))

\* the start times of the synthesized segments of a run and its running total
\* are the sums of the durations before them, and so are the start times the
\* subtitles of its artifact were generated from
StartTimesAccumulate(run) ==
    /\ run.pc \in {"synthesis", "watermark"} =>
          /\ \A k \in 1..Synthesized(run) :
                run.allSegments[k].startTime = {DurationsUpTo(run.audioBuffers, k - 1)}
          /\ run.currentTotalTime = DurationsUpTo(run.audioBuffers, Synthesized(run))
    /\ \A art \in run.artifact :
          \A k \in DOMAIN art.srt :
              art.srt[k].startTime = {DurationsUpTo(art.buffers, k - 1)}

\* C15: in every production run, after segment k has been synthesized its
\* startTime is the sum of the durations of all segments before it in the run
\* (0 for the intro), and the running total is the sum of the durations of
\* all segment buffers accumulated so far; the subtitles of a finished run
\* are generated from these start times.
C15_StartTimes == \A r \in DOMAIN runs : StartTimesAccumulate(runs[r])

\* the buffers of an artifact that are the watermark
Watermarks(art) == {k \in DOMAIN art.buffers : art.buffers[k].segmentId = <<"watermark">>}

\* C16: the watermark buffer is part of the encoded output of a run if and
\* only if the account tier of the run is FREE; it is absent for PRO and
\* ENTERPRISE; and when present it is the last buffer of the concatenation,
\* right after the outro.
C16_WatermarkIffFree ==
    \A r \in DOMAIN runs :
        \A art \in runs[r].artifact :
            /\ (Watermarks(art) # {}) <=> (runs[r].state.tier = "FREE")
            /\ runs[r].state.tier \in {"PRO", "ENTERPRISE"} => Watermarks(art) = {}
            /\ Watermarks(art) # {} =>
                  /\ Watermarks(art) = {Len(art.buffers)}
                  /\ art.buffers[Len(art.buffers) - 1].segmentId = <<"outro">>

\* a run of the FREE tier over two script segments has encoded five buffers,
\* the last of them the watermark
C16_Witness ==
    \E r \in DOMAIN runs :
        \E art \in runs[r].artifact :
            /\ runs[r].state.tier = "FREE"
            /\ Len(art.buffers) = 5
            /\ Watermarks(art) = {5}

\* C17: within one production run the segments are synthesized strictly one
\* after another: at most one synthesis call of the run is in flight, and it
\* is the call for the segment after the ones whose buffers are accumulated.
C17_OneCallInFlight ==
    \A r \in DOMAIN runs :
        /\ Cardinality(runs[r].inFlight) <= 1
        /\ \A c \in runs[r].inFlight : c.index = Len(runs[r].audioBuffers) + 1

\* the call for the third segment is in flight after two segments are finished
C17_Witness ==
    \E r \in DOMAIN runs :
        /\ Len(runs[r].audioBuffers) = 2
        /\ \E c \in runs[r].inFlight : c.index = 3

(***************************************************************************)
(* Properties of the voice resolution                                      *)
(***************************************************************************)
\* C19: for every speaker label, every speaker-to-voice map (ids of no voice
\* and of a voice of the other family included) and either routing decision,
\* the resolution yields a voice, and the voice is of the engine family of
\* the decision: provider-hosted (GEMINI) when the decision's provider is
\* gemini, locally synthesized (BROWSER) otherwise.
C19_VoiceOfActiveFamily ==
    \A c \in vResolved :
        /\ c.voice # {}
        /\ \A voice \in c.voice :
              /\ \E k \in DOMAIN VOICES : VOICES[k] = voice
              /\ voice.engine = IF c.ttsDecision.model.provider = "gemini"
                                THEN "GEMINI" ELSE "BROWSER"

\* a speaker mapped to a voice of the other family, or to no voice at all,
\* was resolved under the local decision
C19_Witness ==
    \E c \in vResolved :
        /\ c.ttsDecision.model.provider # "gemini"
        /\ c.speaker \in DOMAIN c.speakerVoiceMap
        /\ c.speakerVoiceMap[c.speaker] \in {"pro-1", "pro-3", "no-such-voice"}
        /\ c.voice # {}

(***************************************************************************)
(* Properties of App.synthesizeSegment                                     *)
(***************************************************************************)
\* the status changes the life cycle of a segment allows
StatusTransitions ==
    {<<"pending", "generating">>, <<"generating", "completed">>, <<"generating", "error">>}

\* an entry of the next segment list is the segment an entry of this one is
SameSegment(s, next) ==
    /\ s.id = next.id
    /\ s.speaker = next.speaker
    /\ s.text = next.text

\* C18: the status of a segment changes only from pending to generating, from
\* generating to completed and from generating to error; completed and error
\* are terminal: no later event changes such a status, for every interleaving
\* of synthesize requests on the segment.
C18_StatusTransitions ==
    [][\A k \in DOMAIN segments, j \in DOMAIN segments' :
          SameSegment(segments[k], segments'[j]) =>
              \/ segments'[j].status = segments[k].status
              \/ <<segments[k].status, segments'[j].status>> \in StatusTransitions]_vars

\* the positions of the segment list whose status, audio reference or
\* duration differ after the step
Touched ==
    {k \in DOMAIN segments :
        \/ segments'[k].status # segments[k].status
        \/ segments'[k].audioUrl # segments[k].audioUrl
        \/ segments'[k].duration # segments[k].duration}

\* C20: when the synthesis of a single segment fails, the status of that
\* segment becomes error, and the status, the audio reference and the
\* duration of every other segment of the list are left unchanged.
C20_FailureOfOneSegment ==
    [][\A t \in DOMAIN tasks :
          (tasks[t].pc = "synthesis" /\ tasks'[t].pc = "failed") =>
              /\ DOMAIN segments' = DOMAIN segments
              /\ Cardinality(Touched) <= 1
              /\ \A k \in DOMAIN segments :
                    segments[k].id = tasks[t].seg.id => segments'[k].status = "error"]_vars

(***************************************************************************)
(* Properties of the segment synchronisation                               *)
(***************************************************************************)
\* no two entries of a segment list have the same id
UniqueIds(list) ==
    \A i, j \in DOMAIN list : i # j => list[i].id # list[j].id

\* C21: segment ids are unique: after any sequence of script edits and
\* re-segmentations no two segments of the segment list have the same id,
\* and no two segments of a production run (intro, script segments, outro)
\* have the same id, also when two lines have the same speaker and text.
C21_UniqueIds ==
    /\ UniqueIds(segments)
    /\ \A r \in DOMAIN runs : UniqueIds(runs[r].allSegments)

\* the texts of the segments whose synthesis call is in flight: those of the
\* production runs and those of the single-segment invocations
TextsInSynthesis ==
    UNION {{runs[r].allSegments[c.index].text : c \in runs[r].inFlight} : r \in DOMAIN runs}
    \cup {tasks[t].seg.text : t \in {u \in DOMAIN tasks : tasks[u].pc = "synthesis"}}

\* C22: every segment handed to synthesis has a text that is non-empty after
\* trimming: the script segments (also of a line that is a speaker label and
\* a colon only) and the injected intro and outro segments.
C22_NonEmptyText == \A text \in TextsInSynthesis : text # ""

(***************************************************************************)
(* Properties of the provider calls                                        *)
(***************************************************************************)
\* C23: when the response of the speech synthesis has no audio payload the
\* call fails with the synthesis error, and the error is terminal for the
\* call: the retry policy does not take it for retryable, no delay follows
\* it and the request is not issued again; a call that succeeds carries a
\* payload.
C23_NoPayloadIsTerminal ==
    call = "gemini.generateSpeech" =>
        /\ \A k \in 1..invocations :
              FnOutcome(k) = Reject(ErrNoPayload) =>
                  /\ k = invocations
                  /\ retryPc \in {"awaitFn", "done"}
                  /\ Len(delays) = k - 1
                  /\ retryPc = "done" => result = Reject(ErrNoPayload)
        /\ (retryPc = "done" /\ result.kind = "resolve") =>
              result.value \notin {{}, {""}}

\* the second request of a call, issued after a rate-limit error, was answered
\* without a payload: the call has failed with retries left
C23_Witness ==
    /\ call = "gemini.generateSpeech"
    /\ retryPc = "done"
    /\ result = Reject(ErrNoPayload)
    /\ invocations = 2
    /\ retries > 0

ScriptCalls == {"gemini.generateScriptFromTopic", "pollinations.generateScript"}

\* C24: script generation never returns an empty script as a success: an
\* empty text of a provider is replaced by the default disclaimer or
\* reported as a failure, on the Gemini and on the Pollinations path.
C24_NoEmptyScript ==
    (/\ call \in ScriptCalls
     /\ retryPc = "done"
     /\ result.kind = "resolve")
        => result.value # {""}

(***************************************************************************)
(* Properties of the reported progress and of the encoding                 *)
(***************************************************************************)
\* C25: after each segment of a production run has been synthesized, the
\* progress reported for the run is completedSegments / totalSegments (the
\* reported percentage times the total is 100 times the completed).
C25_ProgressIsFraction ==
    \A r \in DOMAIN runs :
        (runs[r].pc \in {"synthesis", "watermark"} /\ Synthesized(runs[r]) >= 1)
            => progress * Len(runs[r].allSegments) = 100 * Synthesized(runs[r])

\* C26: the encoded audio of a run is tagged with the container it was
\* encoded in: for each export format (WAV, MP3, OGG) the encoder applied to
\* the master buffer writes that container, and the encoder depends on the
\* configured export format only.
C26_ContainerIsExportFormat ==
    \A r \in DOMAIN runs :
        \A art \in runs[r].artifact :
            /\ art.encoder = Encoder(runs[r].state.exportFormat)
            /\ ContainerOf(art.encoder) = runs[r].state.exportFormat

(***************************************************************************)
(* Properties of the playback                                              *)
(***************************************************************************)
\* a step in which stopCurrentPlayback() is called on the user's request
\* without a segment being played by the same request: a voice preview is
\* requested or a production run begins
StopStep ==
    \/ Len(previews') > Len(previews)
    \/ \E r \in DOMAIN runs : runs[r].pc = "ensureAudioContext" /\ runs'[r].pc = "synthesis"

\* C27: after a user-triggered stop of playback no audio buffer source and no
\* segment audio element is playing, for every interleaving of voice-preview
\* requests and stop requests (a stop or a second preview issued while the
\* synthesis of an earlier preview is in flight included); the stop does not
\* cancel a synthesis call in flight.
C27_StopSilences ==
    [][StopStep =>
          /\ playing' = {}
          /\ audio'.paused
          /\ \A p \in DOMAIN previews : previews'[p] = previews[p]]_vars

(***************************************************************************)
(* The order of the voice resolution                                       *)
(***************************************************************************)
\* the positions in VOICES of the voices of the family of a provider
Family(provider) ==
    {k \in DOMAIN VOICES :
        VOICES[k].engine = IF provider = "gemini" THEN "GEMINI" ELSE "BROWSER"}

\* the voice the stated order gives: the mapped voice when it is of the
\* family, else the first of the family named like the speaker, else the
\* first of the family
VoiceInOrder(speaker, speakerVoiceMap, provider) ==
    LET mapped == {k \in Family(provider) :
                      /\ speaker \in DOMAIN speakerVoiceMap
                      /\ VOICES[k].id = speakerVoiceMap[speaker]}
        named == {k \in Family(provider) :
                     Includes(ToLowerCase(VOICES[k].name), ToLowerCase(Chars(speaker)))}
        candidates == IF mapped # {} THEN mapped
                      ELSE IF named # {} THEN named
                      ELSE Family(provider)
    IN {VOICES[k] : k \in {c \in candidates : \A j \in candidates : c <= j}}

\* C28: the voice of a speaker is the speaker's mapped voice when that voice
\* is of the family of the routing decision; otherwise the first voice of the
\* family whose name contains the speaker label, letter case ignored;
\* otherwise the first voice of the family.  The voice depends on the
\* speaker, the map and the decision only, so the synthesis of one segment
\* and the production run resolve the same voice for the same three.
C28_ResolutionOrder ==
    /\ \A c \in vResolved :
          c.voice = VoiceInOrder(c.speaker, c.speakerVoiceMap,
                                 c.ttsDecision.model.provider)
    /\ \A t \in DOMAIN tasks :
          tasks[t].pc = "synthesis" =>
              tasks[t].voice =
                  VoiceInOrder(tasks[t].seg.speaker, tasks[t].state.speakerVoiceMap,
                               TtsDecision(tasks[t].state.quality,
                                           tasks[t].state.apiKeys).model.provider)
    /\ \A r \in DOMAIN runs :
          \A c \in runs[r].inFlight :
              \A d \in runs[r].ttsDecision :
                  c.voice = VoiceInOrder(runs[r].allSegments[c.index].speaker,
                                         runs[r].state.speakerVoiceMap,
                                         d.model.provider)

\* a speaker mapped to a voice of the other family was resolved by name
C28_Witness ==
    \E c \in vResolved :
        /\ c.speaker = "sam"
        /\ c.speaker \in DOMAIN c.speakerVoiceMap
        /\ c.speakerVoiceMap[c.speaker] = "free-1"
        /\ c.ttsDecision.model.provider = "gemini"
        /\ \E voice \in c.voice : voice.id = "pro-3"

(***************************************************************************)
(* Properties of the segment synchronisation                               *)
(***************************************************************************)
\* the i-th segment is the segment of the i-th non-blank line of the script
FollowsScript(list, s) ==
    LET lines == SelectSeq(s, NonBlank)
    IN /\ Len(list) = Len(lines)
       /\ \A i \in DOMAIN lines :
             /\ list[i].speaker = SpeakerOf(lines[i])
             /\ list[i].text = TextOf(lines[i])

\* a non-blank line that an edit leaves at its position keeps its segment
\* and the status of its segment
KeepsUntouchedLines ==
    LET before == SelectSeq(script, NonBlank)
        after == SelectSeq(script', NonBlank)
    IN \A i \in DOMAIN before \cap DOMAIN after :
          (before[i] = after[i] /\ i \in DOMAIN segments /\ i \in DOMAIN segments')
              => /\ segments'[i].id = segments[i].id
                 /\ segments'[i].status = segments[i].status

\* C29: the synchronisation is idempotent and keeps the order: synchronising
\* the script with the segment list it produced gives the same list (length,
\* ids in their positions, statuses), the i-th segment is the one of the i-th
\* non-blank line, and an edit elsewhere in the script neither loses the
\* status of a segment nor moves it to another line.
C29_SyncIdempotent ==
    /\ [](state.isGenerating
            \/ /\ FollowsScript(segments, script)
               /\ Segmentation(script, segments, clock, edits) = segments)
    /\ [][script' # script => KeepsUntouchedLines]_vars

\* no production run was requested and has not yet ended, and the flag is down
NoRunInFlight ==
    /\ ~state.isGenerating
    /\ \A r \in DOMAIN runs : runs[r].pc \in {"done", "failed"}

\* C30: whenever no production run is in flight the segment list is the
\* segmentation of the current script, one segment per non-blank line in the
\* order of the lines; edits of the script made while a run was in flight
\* included.
C30_SegmentsFollowScript == NoRunInFlight => FollowsScript(segments, script)

(***************************************************************************)
(* Properties of the isGenerating flag                                     *)
(***************************************************************************)
\* C31: whenever state.isGenerating is true a production run is in flight in
\* this session; after a reload of the page while a run was in flight the
\* flag is false, so that a new run can be started.
C31_FlagMeansRunInFlight == state.isGenerating => ActiveRuns # {}

\* C32: a production run that has set isGenerating ends, and the step that
\* ends it clears the flag, whether the run publishes its artifact or a
\* synthesis, the watermark or the assembling of the artifact fails, when
\* every awaited call settles.
C32_FlagEventuallyReset ==
    \A r \in 1..MaxRuns :
        (r \in DOMAIN runs /\ runs[r].pc \in {"synthesis", "watermark"})
            ~> (/\ r \in DOMAIN runs
                /\ runs[r].pc \in {"done", "failed"}
                /\ ~state.isGenerating)

\* a run has failed after some of its segments were synthesized, and the flag
\* is cleared
C32_Witness ==
    \E r \in DOMAIN runs :
        /\ runs[r].pc = "failed"
        /\ runs[r].audioBuffers # <<>>
        /\ ~state.isGenerating

(***************************************************************************)
(* Properties of the studio: single-segment syntheses and production runs  *)
(***************************************************************************)
\* the synthesizeSegment invocations with a synthesis call in flight
TasksInSynthesis == {t \in DOMAIN tasks : tasks[t].pc = "synthesis"}

\* the production runs with a synthesis call in flight
RunsInSynthesis ==
    {r \in DOMAIN runs : runs[r].pc = "synthesis" /\ runs[r].inFlight # {}}

\* C33: a single-segment synthesis and a production run never have synthesis
\* calls in flight at the same time: no single-segment synthesis starts
\* while a run is in flight and no run starts while a single-segment
\* synthesis is in flight.
C33_NoOverlap == TasksInSynthesis = {} \/ RunsInSynthesis = {}

(***************************************************************************)
(* Properties of the reported progress                                     *)
(***************************************************************************)
\* run r is in flight before the step and has not failed in it
RunContinues(r) ==
    /\ r \in DOMAIN runs
    /\ runs[r].pc \in {"synthesis", "watermark"}
    /\ runs'[r].pc \in {"synthesis", "watermark", "done"}

\* C35: from the start of a production run until it ends the reported
\* percent never decreases, and it becomes 100 only in the step in which the
\* run publishes its artifact; no timer or handler of an earlier run resets
\* the progress while the run is in flight.
C35_ProgressMonotone ==
    [][\A r \in 1..MaxRuns :
          RunContinues(r) =>
              /\ progress' >= progress
              /\ (progress' = 100 /\ progress # 100) =>
                    \E q \in DOMAIN runs : runs[q].pc # "done" /\ runs'[q].pc = "done"]_vars

(***************************************************************************)
(* Properties of the settings                                              *)
(***************************************************************************)
\* run r ends in the step
RunEnds(r) ==
    /\ r \in DOMAIN runs
    /\ runs[r].pc \in {"synthesis", "watermark"}
    /\ runs'[r].pc \in {"done", "failed"}

\* C36: the end of a production run, successful or failed, changes the
\* isGenerating flag of the application state only: the tier, the quality, the
\* export format, the speaker-voice map and the API keys are those that were
\* in effect before it, changes made while the run was in flight included.
C36_FinishKeepsSettings ==
    [][\A r \in 1..MaxRuns :
          RunEnds(r) =>
              /\ ~state'.isGenerating
              /\ \A field \in DOMAIN state \ {"isGenerating"} :
                    state'[field] = state[field]]_vars

\* a run has ended, and the settings differ from those it was requested with
C36_Witness ==
    \E r \in DOMAIN runs :
        /\ runs[r].pc \in {"done", "failed"}
        /\ ActiveRuns = {}
        /\ ~state.isGenerating
        /\ state.exportFormat # runs[r].state.exportFormat
        /\ state.tier # runs[r].state.tier
        /\ state.speakerVoiceMap # runs[r].state.speakerVoiceMap
        /\ state.apiKeys # runs[r].state.apiKeys

(***************************************************************************)
(* Properties of the orchestrator                                          *)
(***************************************************************************)
\* the call c awaits the provider its decision names
CallsNamedProvider(c) ==
    /\ c.decision = SelectModel(ScriptTask(c.topic, c.quality), c.apiKeys).decision
    /\ IF c.decision.model.provider = "gemini"
       THEN /\ c.providerCall.service = "gemini.generateScriptFromTopic"
            /\ c.providerCall.model = {c.decision.modelId}
       ELSE /\ c.providerCall.service = "pollinations.generateScript"
            /\ c.providerCall.alias = {"openai"}
                   <=> c.decision.modelId = "pollinations-script-paid"

\* the error a failed call is rejected with names the chosen model
NamesModel(c) ==
    c.result.kind = "reject" =>
        \A e \in c.result.error :
            \E m \in e.message : Includes(m, <<"via", c.decision.model.name>>)

\* C37: generateScript calls the provider the routing decision names: the
\* Gemini service with the model id of the decision exactly when the provider
\* of the decision is gemini, otherwise Pollinations, with the paid alias
\* exactly when the decision is the paid model; the usage metadata is stored
\* only in the step in which the provider call has succeeded, and a failed
\* provider call is re-raised naming the chosen model and stores nothing.
C37_CallsNamedProvider ==
    /\ [](\A c \in orch : CallsNamedProvider(c) /\ NamesModel(c))
    /\ [][masterHistory' # masterHistory =>
             /\ \E c \in orch : c.pc = "awaitProvider"
             /\ \E c \in orch' : c.result.kind = "resolve"]_vars

\* a call of the paid Pollinations model has failed with nothing stored
C37_Witness ==
    \E c \in orch :
        /\ c.decision.modelId = "pollinations-script-paid"
        /\ c.providerCall.alias = {"openai"}
        /\ c.result.kind = "reject"
        /\ masterHistory = Stored(<<>>)

(***************************************************************************)
(* Properties of the script generation                                     *)
(***************************************************************************)
\* the handleScriptGeneration invocations that await the provider
GensAwaitingProvider == {g \in DOMAIN gens : gens[g].pc = "generateScript"}

\* C34: at most one script generation is in flight at any time: a request
\* (button or Ctrl/Cmd+G) made while isAgentThinking is set issues no second
\* provider call, whatever the order of the requests, and isAgentThinking is
\* false again once the generation has succeeded or failed.
C34_OneGeneration ==
    /\ Cardinality(GensAwaitingProvider) <= 1
    /\ (\A g \in DOMAIN gens : gens[g].pc \in {"done", "failed"}) => ~isAgentThinking

====
